---- MODULE Spec2Model ----
(***************************************************************************)
(* Pipeline orchestration of the meeting assistant backend:                *)
(*   - SchedulerService (backend/app/services/scheduler.py): two interval  *)
(*     jobs and the manual trigger_pipeline, each guarded by a Redis       *)
(*     SET NX EX lock that is deleted in a finally block;                  *)
(*   - run_agent_with_logging (backend/app/agents/run_tracker.py): the     *)
(*     AgentRunLog lifecycle around one agent call;                        *)
(*   - the route handlers that run agents directly                         *)
(*     (backend/app/api/routes/meetings.py, agents.py).                    *)
(*                                                                         *)
(* An "invocation" is one call of an entry point, in any backend process.  *)
(* The model keeps a fixed number of invocation slots; each slot is        *)
(* invoked once with an entry point chosen nondeterministically.           *)
(***************************************************************************)
EXTENDS Integers, Sequences, FiniteSets, TLC

\* ---------------------------------------------------------------- bounds
\* number of invocation slots (entry-point calls observed in one behaviour)
NumSlots == 2
\* number of faults (granola unavailable, an agent call raising, returning
\* errors or outlasting the stale timeout, a task cancelled, a process
\* crashing, a row cancelled by the user) observed in one behaviour
MaxFaults == 1
\* largest count in a result dict of execute_fn
MaxCount == 1
\* number of agent classes in the agents package
MaxAgents == 3
\* largest length of the dependencies list of an agent class
MaxDeps == 2

Slots == 1..NumSlots

\* ------------------------------------------------------ program constants
SYNC_LOCK_KEY == "meeting_assistant:sync_lock"
BRIEFING_LOCK_KEY == "meeting_assistant:briefing_lock"
DEFAULT_LOCK_TTL == 300
\* ttl_seconds=600 passed by trigger_pipeline
TRIGGER_LOCK_TTL == 600

LockKeys == {SYNC_LOCK_KEY, BRIEFING_LOCK_KEY}

\* keys of AGENT_EXECUTORS: the agents of the application
AGENT_EXECUTORS ==
    {"meeting_sync", "entity_extraction", "profile_builder",
     "relationship_builder", "briefing_generator", "calendar_agent"}

\* class attribute `pipeline` of each agent
AgentPipeline(a) ==
    IF a \in {"briefing_generator", "calendar_agent"} THEN "briefing" ELSE "sync"

\* class attribute `dependencies` of each agent
AgentDependencies(a) ==
    CASE a = "meeting_sync" -> {}
      [] a = "entity_extraction" -> {"meeting_sync"}
      [] a = "relationship_builder" -> {"entity_extraction"}
      [] a = "profile_builder" -> {"relationship_builder"}
      [] a = "calendar_agent" -> {}
      [] a = "briefing_generator" -> {"calendar_agent"}

\* deps_in_pipeline of resolve_dependencies: the declared dependencies that
\* are agents of the same pipeline
DepsInPipeline(a) ==
    {d \in AgentDependencies(a) : d \in AGENT_EXECUTORS /\ AgentPipeline(d) = AgentPipeline(a)}

\* the entry points
Entries ==
    {"scheduled", "trigger_pipeline", "trigger_full_pipeline", "trigger_sync", "trigger_agent"}

\* entry points of SchedulerService: they take the pipeline lock
SchedulerEntries == {"scheduled", "trigger_pipeline"}

\* pipeline argument values: the two pipelines and a name that is neither
PipelineArgs == {"sync", "briefing", "other"}

\* order of the run_agent_with_logging calls in _run_sync_agents
RunSyncAgentsOrder ==
    <<"meeting_sync", "profile_builder", "relationship_builder", "entity_extraction">>

\* the run_agent_with_logging call of _run_briefing_agents
RunBriefingAgentsOrder == <<"briefing_generator">>

\* order of the run_agent_with_logging calls in the route trigger_full_pipeline
FullPipelineOrder ==
    <<"meeting_sync", "profile_builder", "relationship_builder", "entity_extraction">>

\* _execute_pipeline: the agent calls made for a pipeline name
ExecutePipelineOrder(p) ==
    IF p = "sync" THEN RunSyncAgentsOrder
    ELSE IF p = "briefing" THEN RunBriefingAgentsOrder
    ELSE << >>

\* the agent calls an invocation makes, in order
StepsOf(e, p, a) ==
    CASE e \in SchedulerEntries -> ExecutePipelineOrder(p)
      [] e = "trigger_full_pipeline" -> FullPipelineOrder
      [] e = "trigger_sync" -> <<"meeting_sync">>
      [] e = "trigger_agent" -> <<a>>
      [] OTHER -> << >>

\* one lock key for every pipeline
LockKeyFor_SingleKey(e, p) == SYNC_LOCK_KEY

\* lock_key chosen by the entry point
LockKeyFor(e, p) == IF p = "sync" THEN SYNC_LOCK_KEY ELSE BRIEFING_LOCK_KEY

\* ttl_seconds passed to acquire_sync_lock by the entry point
LockTtlFor(e) == IF e = "trigger_pipeline" THEN TRIGGER_LOCK_TTL ELSE DEFAULT_LOCK_TTL

\* SET without NX: the key is written whether or not it exists
RedisSetNxEx_NoNx(store, key, ttl) ==
    [ok |-> TRUE, store |-> [store EXCEPT ![key] = ttl]]

\* SET NX without EX: the key never expires
RedisSetNxEx_NoEx(store, key, ttl) ==
    IF store[key] = 0
    THEN [ok |-> TRUE, store |-> [store EXCEPT ![key] = -1]]
    ELSE [ok |-> FALSE, store |-> store]

\* redis SET key "1" NX EX ttl on a store mapping each key to the time to
\* live it was set with (0: the key does not exist, -1: a key that never
\* expires)
RedisSetNxEx(store, key, ttl) ==
    IF store[key] = 0
    THEN [ok |-> TRUE, store |-> [store EXCEPT ![key] = ttl]]
    ELSE [ok |-> FALSE, store |-> store]

\* redis DEL key
RedisDelete(store, key) == [store EXCEPT ![key] = 0]

\* redis removes a key whose time to live has elapsed
RedisExpire(store, key) == [store EXCEPT ![key] = 0]

\* no except clause around the steps
CatchesStepException_None(e) == FALSE

\* except clauses around each step of _run_sync_agents / _run_briefing_agents;
\* the route handlers have none around run_agent_with_logging
CatchesStepException(e) == e \in SchedulerEntries

\* the noop of _execute_calendar_agent cannot raise
CanRaise(e, a) == ~(e = "trigger_agent" /\ a = "calendar_agent")

\* the meeting_sync step is gated by granola.health_check() == HEALTHY
HealthGated(a) == a = "meeting_sync"

RunStatus == {"none", "running", "completed", "failed"}

\* STALE_RUN_TIMEOUT_MINUTES of routes/status.py
STALE_RUN_TIMEOUT_MINUTES == 10

\* ---------------------------------------------------------- result dicts
\* the keys of the dict returned by execute_fn that run_agent_with_logging
\* reads for the status of the row, and "updated" and "meetings_processed",
\* the counts of profile_builder and relationship_builder
ResultKeys == {"errors", "new", "updated", "processed", "meetings_processed"}

\* a key the dict does not have
Absent == -1

\* the dicts execute_fn can return: each key absent or mapped to a count
\* ("errors": to the length of the list)
ResultDicts == [ResultKeys -> {Absent} \cup 0..MaxCount]

\* result.get(k, default)
Get(d, k, default) == IF d[k] = Absent THEN default ELSE d[k]

\* error_count = len(result.get("errors", []))
ErrorCount(d) == Get(d, "errors", 0)

\* log.status of the completion path of run_agent_with_logging
TerminalStatus(d) ==
    IF ErrorCount(d) # 0 /\ Get(d, "processed", Get(d, "new", 0)) = 0
    THEN "failed" ELSE "completed"

\* _build_summary, up to the wording of the parts: "Completed" when no part
\* is appended
BuildSummary(d) ==
    IF \A k \in ResultKeys : Get(d, k, 0) = 0 THEN "Completed" ELSE "parts"

\* the returned mapping has the run id and nothing of the result
WithRunId_OnlyRunId(d, id) ==
    [k \in ResultKeys \cup {"run_id"} |-> IF k = "run_id" THEN id ELSE Absent]

\* {**result, "run_id": str(run_id)}
WithRunId(d, id) ==
    [k \in ResultKeys \cup {"run_id"} |-> IF k = "run_id" THEN id ELSE d[k]]

\* run_agent_with_logging has not returned
NoReturn == [k \in ResultKeys \cup {"run_id"} |-> Absent]

\* run_id = uuid.uuid4(): a fresh id for the call of agent number n of
\* invocation i
RunId(i, n) == 10 * i + n

\* what a call of execute_fn does: it raises an Exception or returns a dict
NoResult == [k \in ResultKeys |-> Absent]
Raises == [raised |-> TRUE, result |-> NoResult]
Returns(d) == [raised |-> FALSE, result |-> d]
AllOutcomes == {Raises} \cup {Returns(d) : d \in ResultDicts}

\* a call that succeeds is one that returns no errors
Nominal(out) == ~out.raised /\ ErrorCount(out.result) = 0

\* the outcomes followed through whole pipeline runs: a clean result, a
\* result with errors and no progress, a result with errors and progress,
\* an Exception
CleanResult == [k \in ResultKeys |-> IF k \in {"errors", "new"} THEN 0 ELSE Absent]
ErrorsOnlyResult == [CleanResult EXCEPT !["errors"] = 1]
PartialResult == [CleanResult EXCEPT !["errors"] = 1, !["new"] = 1]
Outcomes == {Raises, Returns(CleanResult), Returns(ErrorsOnlyResult), Returns(PartialResult)}

\* the outcomes that decide the control flow of a pipeline run
ControlOutcomes == {Raises, Returns(CleanResult)}

\* the trigger argument the entry point passes to run_agent_with_logging
TriggerOf(e) == IF e = "scheduled" THEN "scheduled" ELSE "manual"

\* the columns of an AgentRunLog row besides status, and the number of
\* times the stale sweep has updated the row; NoRow: there is no such row
NoRow == [id |-> 0, pipeline |-> "", agent_name |-> "", trigger |-> "",
          result_summary |-> "", errors_count |-> 0, sweeps |-> 0]

\* -------------------------------------------------------- agent classes
\* names an agent class can declare, in the order in which the registry
\* meets them first: names carry no meaning, so the n-th name to be
\* registered is called NamePool[n]
NamePool == <<"a", "b", "c", "d", "e", "f">>
AgentNames == {NamePool[n] : n \in 1..MaxAgents}

\* values of the class attribute `pipeline`
PipelineLabels == {"sync", "briefing"}

\* values of the class attribute `dependencies`: lists of names, with
\* repetitions and with names that no class has
DependencyLists == UNION {[1..n -> AgentNames] : n \in 0..MaxDeps}

\* BaseAgent subclasses by their class attributes; name "" is the default
\* of BaseAgent
AgentClasses ==
    [name : AgentNames \cup {""}, pipeline : PipelineLabels, dependencies : DependencyLists]

\* no call has been made on the registry
NoCall == [op |-> "none", arg |-> "", raised |-> "none"]

\* tool names passed to execute_tool: two tools of both sub-providers and a
\* name that is no tool
Tools == {"list-documents", "get-document", "no-such-tool"}

\* execute_tool has not been called
NoToolCall ==
    [tool |-> "none", mcp_connected |-> FALSE, cache_connected |-> FALSE,
     mcp_ok |-> FALSE, cache_ok |-> FALSE,
     raised |-> FALSE, value |-> "none", tried |-> << >>]

\* the provider classes of the package app.mcp.providers
ProviderClasses == {"GCalProvider", "GranolaProvider", "GranolaMCPProvider", "GranolaCacheProvider"}

\* the class attribute name of a provider class
ProviderName(cls) ==
    CASE cls = "GCalProvider" -> "gcal"
      [] cls = "GranolaProvider" -> "granola"
      [] cls = "GranolaMCPProvider" -> ""
      [] cls = "GranolaCacheProvider" -> ""

\* the modules of the package, in the order of pkgutil.iter_modules
ProviderModules == <<"gcal", "granola", "granola_cache", "granola_mcp">>

\* the provider classes in dir(module), in its order: the classes the
\* module defines and the classes it imports
ModuleClasses(module) ==
    CASE module = "gcal" -> <<"GCalProvider">>
      [] module = "granola" -> <<"GranolaCacheProvider", "GranolaMCPProvider", "GranolaProvider">>
      [] module = "granola_cache" -> <<"GranolaCacheProvider">>
      [] module = "granola_mcp" -> <<"GranolaMCPProvider">>

\* the names a caller asks MCPRegistry.get for
ProviderNames == {"gcal", "granola", "", "notion"}

\* no call of MCPRegistry was made yet
NoProviderCall ==
    [op |-> "none", arg |-> "", raised |-> "none", result |-> << >>, statuses |-> << >>]

\* the AgentState a graph run starts with: the number of entries of its
\* errors list, and the agents whose process has written to it
InitialState == [errors |-> 0, done |-> << >>]

\* no node function was called yet
NoNodeCall ==
    [agent |-> "", should_run |-> FALSE, processed |-> FALSE, raised |-> FALSE,
     before |-> InitialState]

\* no connect call was made yet
NoConnectCall ==
    [has_token |-> FALSE, cache_tried |-> FALSE, mcp_tried |-> FALSE,
     cache_ok |-> FALSE, mcp_ok |-> FALSE, returned |-> FALSE]

\* ProviderStatus
ProviderStatus == {"healthy", "degraded", "disconnected"}

\* no health_check call was made yet
NoHealthCall ==
    [mcp_connected |-> FALSE, cache_connected |-> FALSE,
     mcp_status |-> "none", cache_status |-> "none", result |-> "none"]

VARIABLES
    entry,      \* slot -> entry point of the invocation ("none": not invoked)
    pipeline,   \* slot -> pipeline argument / pipeline of the job
    steps,      \* slot -> the agent calls this invocation makes, in order
    pc,         \* slot -> position of the invocation
    idx,        \* slot -> index in steps of the current agent call
    acquired,   \* slot -> result of acquire_sync_lock (FALSE before it)
    result,     \* slot -> what the invocation returned
    lock,       \* redis: lock key -> ttl in seconds of the key, 0 = no key
    holders,    \* lock key -> slots whose SET succeeded on the current key
    runlog,     \* AgentRunLog rows: slot -> agent -> status
    invoked,    \* slot -> agents whose execute_fn was started, in order
    active,     \* slot -> agents whose execute_fn has started and not ended
    raisedIn,   \* slot -> agents whose execute_fn raised an Exception
    deleted,    \* slot -> the invocation has issued DEL on its lock key
    faults,     \* number of faults so far
    rowdata,    \* AgentRunLog rows: slot -> the other columns of its rows,
                \* in the order in which they were written
    fnresult,   \* slot -> what its last call of execute_fn returned
    returned,   \* slot -> what its last run_agent_with_logging returned
    errors,     \* slot -> length of the errors list of the pipeline result
    stale,      \* slot -> started_at of its latest row is before the cutoff
    agents,     \* AgentRegistry._agents: the registered agents, in the
                \* order of their registration
    regcall,    \* the last call on the registry and the exception it raised
    order,      \* what the last resolve_dependencies / build_graph call
                \* returned: agent names in execution order
    issues,     \* what the last validate call returned
    started,    \* lifespan has called scheduler.start()
    mcp,        \* GranolaMCPProvider: _connected, _access_token is set
    cache,      \* GranolaCacheProvider: _connected
    last_source,\* GranolaProvider._last_source
    toolcall,   \* the last GranolaProvider.execute_tool call: its tool, the
                \* sub-providers as it found them, and how it ended
    conncall,   \* the last GranolaProvider.connect call: its credentials, the
                \* sub-providers it connected, and what it returned
    healthcall, \* the last GranolaProvider.health_check call: the
                \* sub-providers as it found them, and what it returned
    lastcall,   \* the method of GranolaProvider that was called last
    offline,    \* disconnect was called and no connect has returned True since
    providers,  \* MCPRegistry._providers: the provider classes whose instance
                \* is registered, in the order of registration
    provcall,   \* the last call of a method of MCPRegistry and how it ended
    nodes,      \* the nodes of the graph that is running, in the order of its edges
    nodepos,    \* the node the running graph is at: 0 when no graph is running,
                \* Len(nodes) + 1 at END
    pstate,     \* the AgentState that is passed from node to node
    nodecall    \* the last call of a node function and how it ended

\* the state of the pipeline runs
orchestration == <<entry, pipeline, steps, pc, idx, acquired, result, lock, holders,
                   runlog, invoked, active, raisedIn, deleted, faults,
                   rowdata, fnresult, returned, errors, stale>>

\* the state of the agent registry and of process startup
registry == <<agents, regcall, order, issues, started>>

\* the state of the granola provider
granola == <<mcp, cache, last_source, toolcall, conncall, healthcall, lastcall, offline>>

\* the state of the provider registry
discovery == <<providers, provcall>>

\* the state of a run of the graph that build_graph returned
graphrun == <<nodes, nodepos, pstate, nodecall>>

vars == <<orchestration, registry, granola, discovery, graphrun>>

LockKeyOf(i) == LockKeyFor(entry[i], pipeline[i])

NoRuns == [a \in AGENT_EXECUTORS |-> "none"]

Init ==
    /\ entry = [i \in Slots |-> "none"]
    /\ pipeline = [i \in Slots |-> "none"]
    /\ steps = [i \in Slots |-> << >>]
    /\ pc = [i \in Slots |-> "idle"]
    /\ idx = [i \in Slots |-> 1]
    /\ acquired = [i \in Slots |-> FALSE]
    /\ result = [i \in Slots |-> "none"]
    /\ lock = [k \in LockKeys |-> 0]
    /\ holders = [k \in LockKeys |-> {}]
    /\ runlog = [i \in Slots |-> NoRuns]
    /\ invoked = [i \in Slots |-> << >>]
    /\ active = [i \in Slots |-> {}]
    /\ raisedIn = [i \in Slots |-> {}]
    /\ deleted = [i \in Slots |-> FALSE]
    /\ faults = 0
    /\ rowdata = [i \in Slots |-> << >>]
    /\ fnresult = [i \in Slots |-> NoResult]
    /\ returned = [i \in Slots |-> NoReturn]
    /\ errors = [i \in Slots |-> 0]
    /\ stale = [i \in Slots |-> FALSE]
    /\ agents = << >>
    /\ regcall = NoCall
    /\ order = << >>
    /\ issues = << >>
    /\ started = FALSE
    /\ mcp = [connected |-> FALSE, access_token |-> FALSE]
    /\ cache = [connected |-> FALSE]
    /\ last_source = "unknown"
    /\ toolcall = NoToolCall
    /\ conncall = NoConnectCall
    /\ healthcall = NoHealthCall
    /\ lastcall = "none"
    /\ offline = FALSE
    /\ providers = << >>
    /\ provcall = NoProviderCall
    /\ nodes = << >>
    /\ nodepos = 0
    /\ pstate = InitialState
    /\ nodecall = NoNodeCall

\* the position of x in the sequence sq
IndexIn(sq, x) == CHOOSE n \in DOMAIN sq : sq[n] = x

\* a number for each kind of invocation: entry point e, pipeline p and
\* agent calls st
KindRank(e, p, st) ==
    100 * IndexIn(<<"scheduled", "trigger_pipeline", "trigger_full_pipeline",
                    "trigger_sync", "trigger_agent">>, e)
    + 10 * IndexIn(<<"sync", "briefing", "other">>, p)
    + IF e = "trigger_agent"
      THEN IndexIn(<<"meeting_sync", "entity_extraction", "profile_builder",
                     "relationship_builder", "briefing_generator", "calendar_agent">>, st[1])
      ELSE 0

\* slot numbers carry no meaning, so the invocations of a behaviour are
\* numbered by kind and, within a kind, by the time of the call: slot i is
\* free for a call of a kind when the calls in lower slots are of that kind
\* or a lower one and the calls in higher slots are of a higher one
CanInvoke(i, e, p, st) ==
    /\ pc[i] = "idle"
    /\ \A j \in Slots :
        pc[j] # "idle" =>
            /\ j < i => KindRank(entry[j], pipeline[j], steps[j]) <= KindRank(e, p, st)
            /\ j > i => KindRank(e, p, st) < KindRank(entry[j], pipeline[j], steps[j])

\* the part of the state that belongs to invocation i
Local(i) ==
    [slot |-> i, pc |-> pc[i], idx |-> idx[i], result |-> result[i],
     runlog |-> runlog[i], invoked |-> invoked[i], active |-> active[i],
     raisedIn |-> raisedIn[i], rowdata |-> rowdata[i],
     fnresult |-> fnresult[i], returned |-> returned[i], errors |-> errors[i], stale |-> stale[i]]

SetLocal(i, loc) ==
    \E l \in {loc} :
        /\ pc' = [pc EXCEPT ![i] = l.pc]
        /\ idx' = [idx EXCEPT ![i] = l.idx]
        /\ result' = [result EXCEPT ![i] = l.result]
        /\ runlog' = [runlog EXCEPT ![i] = l.runlog]
        /\ invoked' = [invoked EXCEPT ![i] = l.invoked]
        /\ active' = [active EXCEPT ![i] = l.active]
        /\ raisedIn' = [raisedIn EXCEPT ![i] = l.raisedIn]
        /\ rowdata' = [rowdata EXCEPT ![i] = l.rowdata]
        /\ fnresult' = [fnresult EXCEPT ![i] = l.fnresult]
        /\ returned' = [returned EXCEPT ![i] = l.returned]
        /\ errors' = [errors EXCEPT ![i] = l.errors]
        /\ stale' = [stale EXCEPT ![i] = l.stale]

\* where an invocation goes when it has no agent call left:
\* SchedulerService entries run their finally block, routes return
EndPc(e) == IF e \in SchedulerEntries THEN "release" ELSE "done"

\* the lock is released after the pipeline call instead of in a finally
\* block: an exception that escapes skips the release
End_NoFinally(loc, e, res) ==
    [loc EXCEPT !.pc = IF res = "cancelled" THEN "done" ELSE EndPc(e), !.result = res]

\* the invocation ends with result res
End(loc, e, res) == [loc EXCEPT !.pc = EndPc(e), !.result = res]

\* the callers that extend the errors list of the pipeline result with the
\* errors of the step: _run_sync_agents does for meeting_sync and
\* profile_builder
ExtendsErrors(e, a) == e \in SchedulerEntries /\ a \in {"meeting_sync", "profile_builder"}

\* execute_fn is called before the row is written
StartAgent_NoRow(loc, e, n, a) ==
    [loc EXCEPT !.pc = "exec", !.idx = n,
                !.invoked = Append(@, a),
                !.active = @ \cup {a}]

\* run_agent_with_logging up to the call of execute_fn: the AgentRunLog row
\* of agent a is committed with status "running", then execute_fn starts
StartAgent(loc, e, n, a) ==
    [loc EXCEPT !.pc = "exec", !.idx = n,
                !.runlog = [@ EXCEPT ![a] = "running"],
                !.rowdata = Append(@,
                    [id |-> RunId(loc.slot, n), pipeline |-> AgentPipeline(a), agent_name |-> a,
                     trigger |-> TriggerOf(e), result_summary |-> "", errors_count |-> 0,
                     sweeps |-> 0]),
                !.stale = FALSE,
                !.invoked = Append(@, a),
                !.active = @ \cup {a}]

\* the rows with the row of agent a replaced by new
SetRow(rows, a, new) ==
    [n \in DOMAIN rows |-> IF rows[n].agent_name = a THEN new ELSE rows[n]]

\* the row of agent a among rows
RowIn(rows, a) ==
    IF \E n \in DOMAIN rows : rows[n].agent_name = a
    THEN rows[CHOOSE n \in DOMAIN rows : rows[n].agent_name = a]
    ELSE NoRow

\* the call of execute_fn is not awaited: the caller goes on while it runs
EndAgent_NotAwaited(loc, a, out) == loc

\* the except clause writes nothing to the row
EndAgent_ExceptSilent(loc, a, out) ==
    [loc EXCEPT !.runlog = [@ EXCEPT ![a] =
                    IF out.raised THEN @ ELSE TerminalStatus(out.result)],
                !.rowdata = SetRow(@, a,
                    [RowIn(@, a) EXCEPT
                        !.errors_count = IF out.raised THEN @ ELSE ErrorCount(out.result),
                        !.result_summary = IF out.raised THEN @
                                           ELSE BuildSummary(out.result)]),
                !.fnresult = out.result,
                !.returned = IF out.raised THEN NoReturn
                             ELSE WithRunId(out.result, RowIn(loc.rowdata, a).id),
                !.active = @ \ {a},
                !.raisedIn = IF out.raised THEN @ \cup {a} ELSE @]

\* run_agent_with_logging from the end of execute_fn on: execute_fn has
\* returned a dict or raised an Exception; the row is selected by its id and
\* gets its terminal status, errors_count and result_summary, whatever its
\* status was; the dict is returned with the run id, or the exception is
\* raised again
EndAgent(loc, a, out) ==
    [loc EXCEPT !.runlog = [@ EXCEPT ![a] =
                    IF out.raised THEN "failed" ELSE TerminalStatus(out.result)],
                !.rowdata = SetRow(@, a,
                    [RowIn(@, a) EXCEPT
                        !.errors_count = IF out.raised THEN 1 ELSE ErrorCount(out.result),
                        !.result_summary = IF out.raised THEN "Error: exc"
                                           ELSE BuildSummary(out.result)]),
                !.fnresult = out.result,
                !.returned = IF out.raised THEN NoReturn
                             ELSE WithRunId(out.result, RowIn(loc.rowdata, a).id),
                !.active = @ \ {a},
                !.raisedIn = IF out.raised THEN @ \cup {a} ELSE @]

\* agent call number n of st is behind the health gate
GateAt(st, n) == n <= Len(st) /\ HealthGated(st[n])

\* the invocation goes on with its agent call number n. The meeting_sync
\* call is made only if granola is registered and HEALTHY (healthy);
\* otherwise _run_sync_agents and trigger_full_pipeline skip the step,
\* trigger_sync answers 503 and _execute_meeting_sync returns
Proceed(loc, e, st, n, healthy) ==
    LET closed == GateAt(st, n) /\ ~healthy
        m == IF closed THEN n + 1 ELSE n
    IN  IF closed /\ e = "trigger_sync" THEN End(loc, e, "raised")
        ELSE IF closed /\ e = "trigger_agent" THEN End(loc, e, "completed")
        ELSE IF m <= Len(st) THEN StartAgent(loc, e, m, st[m])
        ELSE End(loc, e, IF Len(st) = 0 THEN "skipped_unknown" ELSE "completed")

\* the result of acquire_sync_lock is ignored
AfterAcquire_IgnoreResult(loc, e, st, ok, healthy) == Proceed(loc, e, st, 1, healthy)

\* the branch of _run_sync_pipeline, _run_briefing_pipeline and
\* trigger_pipeline on the result ok of acquire_sync_lock
AfterAcquire(loc, e, st, ok, healthy) ==
    IF ok THEN Proceed(loc, e, st, 1, healthy)
    ELSE [loc EXCEPT !.pc = "done", !.result = "skipped_running"]

\* acquire_sync_lock as called by entry point e for pipeline p, the branch
\* on its result and, when the lock was taken, the pipeline up to the first
\* call of execute_fn
acquire_sync_lock(i, e, p, healthy) ==
    LET r == RedisSetNxEx(lock, LockKeyFor(e, p), LockTtlFor(e))
        st == StepsOf(e, p, "none")
    IN  /\ lock' = r.store
        /\ acquired' = [acquired EXCEPT ![i] = r.ok]
        /\ holders' = IF r.ok THEN [holders EXCEPT ![LockKeyFor(e, p)] = @ \cup {i}] ELSE holders
        /\ SetLocal(i, AfterAcquire(Local(i), e, st, r.ok, healthy))
        /\ ~healthy => (faults < MaxFaults /\ r.ok /\ GateAt(st, 1))
        /\ faults' = IF healthy THEN faults ELSE faults + 1
        /\ entry' = [entry EXCEPT ![i] = e]
        /\ pipeline' = [pipeline EXCEPT ![i] = p]
        /\ steps' = [steps EXCEPT ![i] = st]
        /\ UNCHANGED <<deleted, registry, granola, discovery, graphrun>>

\* an interval job fires: _run_sync_pipeline / _run_briefing_pipeline, up to
\* the first call of execute_fn
TimerFire(i, p, healthy) ==
    /\ p \in {"sync", "briefing"}
    /\ CanInvoke(i, "scheduled", p, StepsOf("scheduled", p, "none"))
    /\ acquire_sync_lock(i, "scheduled", p, healthy)

\* the interval job fires again after a fire that was skipped
Refire(i, healthy) ==
    /\ pc[i] = "done"
    /\ entry[i] = "scheduled"
    /\ result[i] = "skipped_running"
    /\ acquire_sync_lock(i, "scheduled", pipeline[i], healthy)

\* SchedulerService.trigger_pipeline(pipeline), up to the first call of
\* execute_fn
trigger_pipeline(i, p, healthy) ==
    /\ p \in PipelineArgs
    /\ CanInvoke(i, "trigger_pipeline", p, StepsOf("trigger_pipeline", p, "none"))
    /\ acquire_sync_lock(i, "trigger_pipeline", p, healthy)

\* a route handler or executor task that runs agents without the lock
RouteCall(i, e, p, a, healthy) ==
    /\ CanInvoke(i, e, p, StepsOf(e, p, a))
    /\ entry' = [entry EXCEPT ![i] = e]
    /\ pipeline' = [pipeline EXCEPT ![i] = p]
    /\ steps' = [steps EXCEPT ![i] = StepsOf(e, p, a)]
    /\ SetLocal(i, Proceed(Local(i), e, StepsOf(e, p, a), 1, healthy))
    /\ ~healthy => (faults < MaxFaults /\ GateAt(StepsOf(e, p, a), 1))
    /\ faults' = IF healthy THEN faults ELSE faults + 1
    /\ UNCHANGED <<acquired, lock, holders, deleted, registry, granola, discovery, graphrun>>

\* the route POST /meetings/sync/full, up to the first call of execute_fn
trigger_full_pipeline(i, healthy) ==
    RouteCall(i, "trigger_full_pipeline", "sync", "none", healthy)

\* the route POST /meetings/sync, up to the call of execute_fn
trigger_sync(i, healthy) ==
    RouteCall(i, "trigger_sync", "sync", "none", healthy)

\* the executor task created by the route POST /agents/{agent_name}/trigger,
\* up to the call of execute_fn
trigger_agent(i, a, healthy) ==
    /\ a \in AGENT_EXECUTORS
    /\ RouteCall(i, "trigger_agent", AgentPipeline(a), a, healthy)

\* what the caller of run_agent_with_logging does when the call is over:
\* a SchedulerService entry goes on with the next step whether or not the
\* call raised, a route handler lets the exception through; errs is the
\* length of the errors list the call returned
AfterAgent(loc, e, st, raised, errs) ==
    IF raised /\ ~CatchesStepException(e)
    THEN End(loc, e, "raised")
    ELSE Proceed([loc EXCEPT !.errors = IF ExtendsErrors(e, st[loc.idx]) THEN @ + errs ELSE @],
                 e, st, loc.idx + 1, TRUE)

\* execute_fn of the current agent call returns or raises; the invocation
\* runs up to its next call of execute_fn or to its end
FinishAgent(i, out) ==
    /\ pc[i] = "exec"
    /\ out.raised => CanRaise(entry[i], steps[i][idx[i]])
    /\ ~Nominal(out) => faults < MaxFaults
    /\ faults' = IF Nominal(out) THEN faults ELSE faults + 1
    /\ SetLocal(i, AfterAgent(EndAgent(Local(i), steps[i][idx[i]], out),
                              entry[i], steps[i], out.raised,
                              IF out.raised THEN 0 ELSE ErrorCount(out.result)))
    /\ UNCHANGED <<entry, pipeline, steps, acquired, lock, holders, deleted, registry, granola, discovery, graphrun>>

\* SchedulerService.stop shuts the scheduler down without waiting and the
\* running job is cancelled while it awaits execute_fn: CancelledError is not
\* an Exception, so no except clause handles it; the row stays "running"
\* and only the finally block runs
Cancel(i) ==
    /\ pc[i] = "exec"
    /\ entry[i] = "scheduled"
    /\ faults < MaxFaults
    /\ faults' = faults + 1
    /\ SetLocal(i, End([Local(i) EXCEPT !.active = @ \ {steps[i][idx[i]]}],
                       entry[i], "cancelled"))
    /\ UNCHANGED <<entry, pipeline, steps, acquired, lock, holders, deleted, registry, granola, discovery, graphrun>>

\* release_sync_lock in the finally block of the SchedulerService entries
release_sync_lock(i) ==
    /\ pc[i] = "release"
    /\ lock' = RedisDelete(lock, LockKeyOf(i))
    /\ holders' = [holders EXCEPT ![LockKeyOf(i)] = {}]
    /\ deleted' = [deleted EXCEPT ![i] = TRUE]
    /\ pc' = [pc EXCEPT ![i] = "done"]
    /\ UNCHANGED <<entry, pipeline, steps, idx, acquired, result, runlog, invoked, active, raisedIn, faults>>
    /\ UNCHANGED <<rowdata, fnresult, returned, errors, stale, registry, granola, discovery, graphrun>>

\* the process of the invocation dies during an agent call: nothing of it
\* runs any more
Crash(i) ==
    /\ pc[i] = "exec"
    /\ faults < MaxFaults
    /\ faults' = faults + 1
    /\ pc' = [pc EXCEPT ![i] = "crashed"]
    /\ active' = [active EXCEPT ![i] = {}]
    /\ UNCHANGED <<entry, pipeline, steps, idx, acquired, result, lock, holders, runlog, invoked, raisedIn, deleted>>
    /\ UNCHANGED <<rowdata, fnresult, returned, errors, stale, registry, granola, discovery, graphrun>>

\* the time to live of a lock key elapses (its holder has been running, or
\* dead, for that long) and redis removes the key
Expire(k) ==
    /\ lock[k] > 0
    /\ lock' = RedisExpire(lock, k)
    /\ holders' = [holders EXCEPT ![k] = {}]
    /\ UNCHANGED <<entry, pipeline, steps, pc, idx, acquired, result, runlog, invoked, active, raisedIn, deleted, faults>>
    /\ UNCHANGED <<rowdata, fnresult, returned, errors, stale, registry, granola, discovery, graphrun>>

\* time passes: started_at of the row that invocation i wrote last, still
\* "running", is now before utcnow() - STALE_RUN_TIMEOUT_MINUTES. An agent
\* call that lasts that long is a fault; the row of a run that is over ages
\* in any case
Age(i) ==
    /\ ~stale[i]
    /\ \E a \in AGENT_EXECUTORS : runlog[i][a] = "running"
    /\ pc[i] = "exec" => faults < MaxFaults
    /\ faults' = IF pc[i] = "exec" THEN faults + 1 ELSE faults
    /\ stale' = [stale EXCEPT ![i] = TRUE]
    /\ UNCHANGED <<entry, pipeline, steps, pc, idx, acquired, result, lock, holders, runlog,
                   invoked, active, raisedIn, deleted, rowdata, fnresult, returned, errors,
                   registry, granola, discovery, graphrun>>

\* the WHERE clause has no condition on status
IsStale_AnyStatus(log, old, i, a) == log[i][a] # "none" /\ old[i]

\* the WHERE clause leaves out the rows of a run that holds its lock
IsStale_UnlessLockHeld(log, old, i, a) ==
    log[i][a] = "running" /\ old[i] /\ ~(acquired[i] /\ i \in holders[LockKeyOf(i)])

\* the WHERE clause takes the rows that are not "completed"
IsStale_NotCompleted(log, old, i, a) == log[i][a] \in {"running", "failed"} /\ old[i]

\* the row of agent a of invocation i matches the WHERE clause of the
\* stale update: status == "running" and started_at < cutoff. A "running"
\* row is the one its invocation wrote last
IsStale(log, old, i, a) == log[i][a] = "running" /\ old[i]

\* the stale update of GET /status: the rows it updates get status
\* "failed", the timeout summary and errors_count 1
get_system_status ==
    /\ runlog' = [i \in Slots |-> [a \in AGENT_EXECUTORS |->
            IF IsStale(runlog, stale, i, a) THEN "failed" ELSE runlog[i][a]]]
    /\ rowdata' = [i \in Slots |-> [n \in DOMAIN rowdata[i] |->
            IF IsStale(runlog, stale, i, rowdata[i][n].agent_name)
            THEN [rowdata[i][n] EXCEPT !.result_summary = "Timed out after 10 minutes",
                                       !.errors_count = 1,
                                       !.sweeps = @ + 1]
            ELSE rowdata[i][n]]]
    /\ UNCHANGED <<entry, pipeline, steps, pc, idx, acquired, result, lock, holders,
                   invoked, active, raisedIn, deleted, faults, fnresult, returned, errors, stale,
                   registry, granola, discovery, graphrun>>

\* cancel_run interrupts the run whose row it updates
CancelEffect_Interrupts(i) ==
    /\ pc' = [pc EXCEPT ![i] = IF @ = "exec" THEN EndPc(entry[i]) ELSE @]
    /\ active' = [active EXCEPT ![i] = {}]
    /\ result' = [result EXCEPT ![i] = IF pc[i] = "exec" THEN "cancelled" ELSE @]

\* cancel_run touches nothing but the row
CancelEffect(i) == UNCHANGED <<pc, active, result>>

\* POST /status/cancel-run/{run_id} for the row of agent a of invocation i:
\* 404 without the row, 400 unless the row is "running", else the row gets
\* status "failed", the summary "Cancelled by user" and one more error
cancel_run(i, a) ==
    /\ runlog[i][a] = "running"
    /\ faults < MaxFaults
    /\ faults' = faults + 1
    /\ runlog' = [runlog EXCEPT ![i][a] = "failed"]
    /\ rowdata' = [rowdata EXCEPT ![i] = SetRow(@, a,
            [RowIn(@, a) EXCEPT !.result_summary = "Cancelled by user", !.errors_count = @ + 1])]
    /\ CancelEffect(i)
    /\ UNCHANGED <<entry, pipeline, steps, idx, acquired, lock, holders,
                   invoked, raisedIn, deleted, fnresult, returned, errors, stale,
                   registry, granola, discovery, graphrun>>

\* -------------------------------------------------------- AgentRegistry
\* self._agents.keys()
AgentKeys(ags) == {ags[n].name : n \in DOMAIN ags}

\* the agent is stored under its name whether or not the name is taken
Register_Overwrite(ags, agent) ==
    IF agent.name = "" THEN [raised |-> "ValueError", agents |-> ags]
    ELSE [raised |-> "none",
          agents |-> IF agent.name \in AgentKeys(ags)
                     THEN [n \in DOMAIN ags |-> IF ags[n].name = agent.name THEN agent ELSE ags[n]]
                     ELSE Append(ags, agent)]

\* AgentRegistry.register: ValueError on an empty name and on a name that is
\* registered, else the agent is stored under its name
Register(ags, agent) ==
    IF agent.name = "" THEN [raised |-> "ValueError", agents |-> ags]
    ELSE IF agent.name \in AgentKeys(ags) THEN [raised |-> "ValueError", agents |-> ags]
    ELSE [raised |-> "none", agents |-> Append(ags, agent)]

\* list_by_pipeline: the registered agents with that pipeline label
ListByPipeline(ags, p) == SelectSeq(ags, LAMBDA a : a.pipeline = p)

\* the names in the dependencies list of an agent
DependencySet(agent) == {agent.dependencies[k] : k \in DOMAIN agent.dependencies}

\* the declared dependencies are dropped
DependencyGraph_NoEdges(ags, p) ==
    [name \in AgentKeys(ListByPipeline(ags, p)) |-> {}]

\* every declared dependency is kept, in the pipeline or not
DependencyGraph_AllDeps(ags, p) ==
    [name \in AgentKeys(ListByPipeline(ags, p)) |->
        UNION {DependencySet(ags[n]) : n \in {m \in DOMAIN ags : ags[m].name = name}}]

\* graph of resolve_dependencies: each agent of the pipeline mapped to
\* deps_in_pipeline, its declared dependencies that are in pipeline_names
DependencyGraph(ags, p) ==
    [name \in AgentKeys(ListByPipeline(ags, p)) |->
        UNION {DependencySet(ags[n]) \cap AgentKeys(ListByPipeline(ags, p)) :
                    n \in {m \in DOMAIN ags : ags[m].name = name}}]

\* graphlib.TopologicalSorter(graph): its nodes are the keys of the graph
\* and every predecessor named in it
SorterNodes(graph) == DOMAIN graph \cup UNION {graph[n] : n \in DOMAIN graph}

Predecessors(graph, n) == IF n \in DOMAIN graph THEN graph[n] ELSE {}

\* the nodes from which a node of S can be reached by 1..k edges
RECURSIVE PredecessorsWithin(_, _, _)
PredecessorsWithin(graph, S, k) ==
    IF k = 0 THEN {}
    ELSE LET direct == UNION {Predecessors(graph, n) : n \in S}
         IN  direct \cup PredecessorsWithin(graph, direct, k - 1)

\* prepare() looks for no cycle
FindCycle_Never(graph) == FALSE

\* TopologicalSorter.prepare: CycleError when a node is among its own
\* predecessors, direct or not
FindCycle(graph) ==
    \E n \in SorterNodes(graph) :
        n \in PredecessorsWithin(graph, {n}, Cardinality(SorterNodes(graph)))

\* the groups that get_ready returns in turn: the nodes all of whose
\* predecessors are done
RECURSIVE ReadyLayers(_, _)
ReadyLayers(graph, done) ==
    LET ready == {n \in SorterNodes(graph) \ done : Predecessors(graph, n) \subseteq done}
    IN  IF ready = {} THEN << >> ELSE <<ready>> \o ReadyLayers(graph, done \cup ready)

\* the orders in which a group of ready nodes can be yielded: the order
\* follows the iteration order of sets of str, which is not fixed
Orderings(S) ==
    {f \in [1..Cardinality(S) -> S] : \A x \in S : \E k \in DOMAIN f : f[k] = x}

RECURSIVE Linearisations(_)
Linearisations(layers) ==
    IF layers = << >> THEN {<< >>}
    ELSE {h \o t : h \in Orderings(Head(layers)), t \in Linearisations(Tail(layers))}

\* list(sorter.static_order()): the lists it can return when prepare()
\* raised nothing
StaticOrder(graph) == Linearisations(ReadyLayers(graph, {}))

\* the text of an issue of validate is made of the agent and the name
Issue(name, dep) == <<name, dep>>

\* the unknown names are those of no agent of the same pipeline
UnknownDeps_SamePipeline(ags, agent) ==
    SelectSeq(agent.dependencies,
              LAMBDA d : d \notin AgentKeys(ListByPipeline(ags, agent.pipeline)))

\* the entries of agent.dependencies that are not in all_names
UnknownDeps(ags, agent) ==
    SelectSeq(agent.dependencies, LAMBDA d : d \notin AgentKeys(ags))

RECURSIVE Flatten(_)
Flatten(lists) == IF lists = << >> THEN << >> ELSE Head(lists) \o Flatten(Tail(lists))

\* AgentRegistry.validate: the issues list, agent by agent in the order of
\* registration and name by name in the order of the dependencies list
Validate(ags) ==
    Flatten([n \in DOMAIN ags |->
        [k \in DOMAIN UnknownDeps(ags, ags[n]) |->
            Issue(ags[n].name, UnknownDeps(ags, ags[n])[k])]])

\* the classes are met in the order of NamePool: a class has no name, a
\* name met before, or the next name of the pool
NameInTurn(ags, name) ==
    \/ name = ""
    \/ name \in AgentKeys(ags)
    \/ Len(ags) < MaxAgents /\ name = NamePool[Len(ags) + 1]

\* registry.register(agent)
register(agent) ==
    /\ NameInTurn(agents, agent.name)
    /\ agents' = Register(agents, agent).agents
    /\ regcall' = [op |-> "register", arg |-> agent.name,
                   raised |-> Register(agents, agent).raised]
    /\ order' = << >>
    /\ issues' = << >>
    /\ UNCHANGED <<started, orchestration, granola, discovery, graphrun>>

\* registry.resolve_dependencies(p): the exception of the sorter gets
\* through, else the static order is returned
resolve_dependencies(p) ==
    /\ IF FindCycle(DependencyGraph(agents, p))
       THEN /\ regcall' = [op |-> "resolve_dependencies", arg |-> p, raised |-> "CycleError"]
            /\ order' = << >>
       ELSE /\ regcall' = [op |-> "resolve_dependencies", arg |-> p, raised |-> "none"]
            /\ order' \in StaticOrder(DependencyGraph(agents, p))
    /\ issues' = << >>
    /\ UNCHANGED <<agents, started, orchestration, granola, discovery, graphrun>>

\* registry.build_graph(p): resolve_dependencies, ValueError when no agent
\* is registered for the pipeline, else a node for each name of the
\* execution order and an edge from each to the next
build_graph(p) ==
    /\ IF FindCycle(DependencyGraph(agents, p))
       THEN /\ regcall' = [op |-> "build_graph", arg |-> p, raised |-> "CycleError"]
            /\ order' = << >>
       ELSE IF StaticOrder(DependencyGraph(agents, p)) = {<< >>}
       THEN /\ regcall' = [op |-> "build_graph", arg |-> p, raised |-> "ValueError"]
            /\ order' = << >>
       ELSE /\ regcall' = [op |-> "build_graph", arg |-> p, raised |-> "none"]
            /\ order' \in StaticOrder(DependencyGraph(agents, p))
    /\ issues' = << >>
    /\ UNCHANGED <<agents, started, orchestration, granola, discovery, graphrun>>

\* registry.validate()
validate ==
    /\ regcall' = [op |-> "validate", arg |-> "", raised |-> "none"]
    /\ issues' = Validate(agents)
    /\ order' = << >>
    /\ UNCHANGED <<agents, started, orchestration, granola, discovery, graphrun>>

\* auto_discover meets the agent class cls in a module of the package: a
\* class with a name that is not registered is instantiated and registered,
\* any other class is passed over. auto_discover runs at startup, before
\* the registry is asked anything
auto_discover(cls) ==
    /\ ~started
    /\ regcall.op \in {"none", "auto_discover"}
    /\ NameInTurn(agents, cls.name)
    /\ IF cls.name # "" /\ cls.name \notin AgentKeys(agents)
       THEN /\ agents' = Register(agents, cls).agents
            /\ regcall' = [op |-> "auto_discover", arg |-> cls.name,
                           raised |-> Register(agents, cls).raised]
       ELSE UNCHANGED <<agents, regcall>>
    /\ order' = << >>
    /\ issues' = << >>
    /\ UNCHANGED <<started, orchestration, granola, discovery, graphrun>>

\* lifespan once auto_discover is over: the issues of validate are logged
\* as warnings, then the scheduler is created and started
lifespan ==
    /\ ~started
    /\ issues' = Validate(agents)
    /\ regcall' = [op |-> "lifespan", arg |-> "", raised |-> "none"]
    /\ started' = TRUE
    /\ order' = << >>
    /\ UNCHANGED <<agents, orchestration, granola, discovery, graphrun>>

\* ------------------------------------------------------ GranolaProvider
\* GranolaMCPProvider.execute_tool: RuntimeError without a connection or a
\* token, else the JSON-RPC call, which returns when the server answers
\* the call with a result (server_ok) and raises otherwise
McpExecuteTool(m, tool, server_ok) ==
    [raised |-> ~(m.connected /\ m.access_token /\ server_ok), value |-> "mcp"]

\* GranolaCacheProvider.execute_tool: RuntimeError without a connection,
\* ValueError for a name that is no tool, else the lookup in the cache file,
\* which returns when the file and the params can be read (readable)
CacheExecuteTool(c, tool, readable) ==
    [raised |-> ~(c.connected /\ tool # "no-such-tool" /\ readable), value |-> "cache"]

\* the cache is tried first and the MCP API is the fallback
ExecuteTool_CacheFirst(m, c, src, tool, server_ok, readable) ==
    LET p == McpExecuteTool(m, tool, server_ok)
        s == CacheExecuteTool(c, tool, readable)
    IN  IF c.connected /\ ~s.raised
        THEN [raised |-> FALSE, value |-> s.value, last_source |-> "cache", tried |-> <<"cache">>]
        ELSE IF m.connected
        THEN [raised |-> p.raised, value |-> IF p.raised THEN "none" ELSE p.value,
              last_source |-> "mcp",
              tried |-> (IF c.connected THEN <<"cache">> ELSE << >>) \o <<"mcp">>]
        ELSE [raised |-> TRUE, value |-> "none", last_source |-> src,
              tried |-> IF c.connected THEN <<"cache">> ELSE << >>]

\* the exception of the MCP call is not caught
ExecuteTool_NoFallback(m, c, src, tool, server_ok, readable) ==
    LET p == McpExecuteTool(m, tool, server_ok)
        s == CacheExecuteTool(c, tool, readable)
    IN  IF m.connected
        THEN [raised |-> p.raised, value |-> IF p.raised THEN "none" ELSE p.value,
              last_source |-> IF p.raised THEN src ELSE "mcp", tried |-> <<"mcp">>]
        ELSE IF c.connected
        THEN [raised |-> s.raised, value |-> IF s.raised THEN "none" ELSE s.value,
              last_source |-> "cache", tried |-> <<"cache">>]
        ELSE [raised |-> TRUE, value |-> "none", last_source |-> src, tried |-> << >>]

\* GranolaProvider.execute_tool: the MCP call when the MCP sub-provider is
\* connected, its result when it returns; when it raises or was not made,
\* _last_source is set to "cache" and the cache call is made when the cache
\* sub-provider is connected; else RuntimeError
ExecuteTool(m, c, src, tool, server_ok, readable) ==
    LET p == McpExecuteTool(m, tool, server_ok)
        s == CacheExecuteTool(c, tool, readable)
    IN  IF m.connected /\ ~p.raised
        THEN [raised |-> FALSE, value |-> p.value, last_source |-> "mcp", tried |-> <<"mcp">>]
        ELSE IF c.connected
        THEN [raised |-> s.raised, value |-> IF s.raised THEN "none" ELSE s.value,
              last_source |-> "cache",
              tried |-> (IF m.connected THEN <<"mcp">> ELSE << >>) \o <<"cache">>]
        ELSE [raised |-> TRUE, value |-> "none", last_source |-> src,
              tried |-> IF m.connected THEN <<"mcp">> ELSE << >>]

\* the states of the cache file at settings.granola_cache_path
CacheFiles == {"missing", "readable", "unreadable"}

\* GranolaCacheProvider.connect: False with the state as it was when the
\* cache file is missing, else _connected is whether the file could be loaded
CacheConnect(c, file) ==
    [ok |-> file = "readable",
     cache |-> IF file = "missing" THEN c ELSE [connected |-> file = "readable"]]

\* GranolaMCPProvider.connect with an access_token: the token is kept, and
\* _connected is whether the token is fresh and the initialize call
\* succeeds (init_ok)
McpConnect(m, init_ok) ==
    [ok |-> init_ok, mcp |-> [connected |-> init_ok, access_token |-> TRUE]]

\* connect returns True only when both sub-providers connected
Connect_RequiresBoth(m, c, has_token, init_ok, file) ==
    LET cc == CacheConnect(c, file)
        mc == McpConnect(m, init_ok)
    IN  [cache |-> cc.cache, mcp |-> IF has_token THEN mc.mcp ELSE m,
         cache_tried |-> TRUE, mcp_tried |-> has_token,
         cache_ok |-> cc.ok, mcp_ok |-> has_token /\ mc.ok,
         returned |-> cc.ok /\ (has_token /\ mc.ok)]

\* GranolaProvider.connect(credentials): the cache sub-provider is always
\* connected, the MCP sub-provider only when the credentials hold an
\* access_token; returns cache_ok or mcp_ok
Connect(m, c, has_token, init_ok, file) ==
    LET cc == CacheConnect(c, file)
        mc == McpConnect(m, init_ok)
    IN  [cache |-> cc.cache, mcp |-> IF has_token THEN mc.mcp ELSE m,
         cache_tried |-> TRUE, mcp_tried |-> has_token,
         cache_ok |-> cc.ok, mcp_ok |-> has_token /\ mc.ok,
         returned |-> cc.ok \/ (has_token /\ mc.ok)]

\* GranolaMCPProvider.health_check: disconnected without a connection or a
\* token, healthy when the ping is answered (ping_ok), degraded when the
\* ping or the token refresh raises
McpHealthCheck(m, ping_ok) ==
    IF ~m.connected \/ ~m.access_token THEN "disconnected"
    ELSE IF ping_ok THEN "healthy" ELSE "degraded"

\* GranolaCacheProvider.health_check: disconnected when the cache file is
\* missing or without a connection, else healthy
CacheHealthCheck(c, file) ==
    IF file = "missing" THEN "disconnected"
    ELSE IF ~c.connected THEN "disconnected" ELSE "healthy"

\* a primary that is connected and not healthy decides the result
HealthCheck_PrimaryDecides(m, c, ping_ok, file) ==
    IF m.connected
    THEN IF McpHealthCheck(m, ping_ok) = "healthy" THEN "healthy" ELSE "degraded"
    ELSE IF c.connected
    THEN IF CacheHealthCheck(c, file) = "healthy" THEN "healthy" ELSE "degraded"
    ELSE "disconnected"

\* GranolaProvider.health_check: healthy when the connected MCP
\* sub-provider reports healthy; else, with a connected cache sub-provider,
\* healthy when that one reports healthy and degraded when not; else
\* disconnected
HealthCheck(m, c, ping_ok, file) ==
    IF m.connected /\ McpHealthCheck(m, ping_ok) = "healthy" THEN "healthy"
    ELSE IF c.connected
    THEN IF CacheHealthCheck(c, file) = "healthy" THEN "healthy" ELSE "degraded"
    ELSE "disconnected"

\* the cache sub-provider is left connected
Disconnect_KeepsCache(m, c) ==
    [mcp |-> [connected |-> FALSE, access_token |-> FALSE], cache |-> c]

\* GranolaProvider.disconnect: both sub-providers are disconnected, and the
\* MCP sub-provider forgets its tokens
Disconnect(m, c) ==
    [mcp |-> [connected |-> FALSE, access_token |-> FALSE],
     cache |-> [connected |-> FALSE]]

\* GranolaProvider.connect(credentials)
connect(has_token, init_ok, file) ==
    LET r == Connect(mcp, cache, has_token, init_ok, file)
    IN  /\ cache' = r.cache
        /\ mcp' = r.mcp
        /\ conncall' = [has_token |-> has_token,
                        cache_tried |-> r.cache_tried, mcp_tried |-> r.mcp_tried,
                        cache_ok |-> r.cache_ok, mcp_ok |-> r.mcp_ok,
                        returned |-> r.returned]
        /\ lastcall' = "connect"
        /\ offline' = (offline /\ ~r.returned)
        /\ UNCHANGED <<last_source, toolcall, healthcall, orchestration, registry, discovery, graphrun>>

\* GranolaProvider.disconnect
disconnect ==
    LET r == Disconnect(mcp, cache)
    IN  /\ mcp' = r.mcp
        /\ cache' = r.cache
        /\ lastcall' = "disconnect"
        /\ offline' = TRUE
        /\ UNCHANGED <<last_source, toolcall, conncall, healthcall, orchestration, registry, discovery, graphrun>>

\* GranolaProvider.execute_tool(tool, params)
execute_tool(tool, server_ok, readable) ==
    LET r == ExecuteTool(mcp, cache, last_source, tool, server_ok, readable)
    IN  /\ last_source' = r.last_source
        /\ toolcall' = [tool |-> tool,
                        mcp_connected |-> mcp.connected, cache_connected |-> cache.connected,
                        mcp_ok |-> ~McpExecuteTool(mcp, tool, server_ok).raised,
                        cache_ok |-> ~CacheExecuteTool(cache, tool, readable).raised,
                        raised |-> r.raised, value |-> r.value, tried |-> r.tried]
        /\ lastcall' = "execute_tool"
        /\ UNCHANGED <<mcp, cache, conncall, healthcall, offline, orchestration, registry, discovery, graphrun>>

\* GranolaProvider.health_check()
health_check(ping_ok, file) ==
    /\ healthcall' = [mcp_connected |-> mcp.connected, cache_connected |-> cache.connected,
                      mcp_status |-> McpHealthCheck(mcp, ping_ok),
                      cache_status |-> CacheHealthCheck(cache, file),
                      result |-> HealthCheck(mcp, cache, ping_ok, file)]
    /\ lastcall' = "health_check"
    /\ UNCHANGED <<mcp, cache, last_source, toolcall, conncall, offline, orchestration, registry, discovery, graphrun>>

\* ------------------------------------------------- the pipeline graph
\* agent.process(state): raises, or returns the state with its own results
\* and with e entries added to the errors list
Process(state, name, raises, e) ==
    IF raises THEN [raised |-> TRUE, state |-> state]
    ELSE [raised |-> FALSE,
          state |-> [errors |-> state.errors + e, done |-> Append(state.done, name)]]

\* process is called whatever should_run returns
NodeFn_NoGate(state, name, should, raises, e) ==
    [raised |-> Process(state, name, raises, e).raised, processed |-> TRUE,
     state |-> Process(state, name, raises, e).state]

\* _node_fn of build_graph: when should_run returns false the skip is
\* logged and the state is returned as it came, else the result of
\* process(state)
NodeFn(state, name, should, raises, e) ==
    IF ~should THEN [raised |-> FALSE, processed |-> FALSE, state |-> state]
    ELSE [raised |-> Process(state, name, raises, e).raised, processed |-> TRUE,
          state |-> Process(state, name, raises, e).state]

\* a run of the graph of the last build_graph call starts: the edge from
\* START to the first name of the execution order
start_graph ==
    /\ regcall.op = "build_graph" /\ regcall.raised = "none"
    /\ nodepos \in {0, Len(nodes) + 1}
    /\ nodes' = order
    /\ nodepos' = 1
    /\ pstate' = InitialState
    /\ nodecall' = NoNodeCall
    /\ UNCHANGED <<orchestration, registry, granola, discovery>>

\* the node of the running graph is executed: its state goes on to the
\* next node of the execution order, an exception ends the run
node_fn(should, raises, e) ==
    /\ nodepos \in 1..Len(nodes)
    /\ LET r == NodeFn(pstate, nodes[nodepos], should, raises, e)
       IN  /\ pstate' = r.state
           /\ nodecall' = [agent |-> nodes[nodepos], should_run |-> should,
                           processed |-> r.processed, raised |-> r.raised,
                           before |-> pstate]
           /\ nodepos' = IF r.raised THEN 0 ELSE nodepos + 1
    /\ UNCHANGED <<nodes, orchestration, registry, granola, discovery>>

\* ---------------------------------------------------------- MCPRegistry
\* self._providers.keys()
ProviderKeys(provs) == {ProviderName(provs[n]) : n \in DOMAIN provs}

\* the provider is stored under its name though the name is empty
McpRegister_NoNameCheck(provs, cls) ==
    IF ProviderName(cls) \in ProviderKeys(provs)
    THEN [raised |-> "ValueError", providers |-> provs]
    ELSE [raised |-> "none", providers |-> Append(provs, cls)]

\* MCPRegistry.register: ValueError on an empty name and on a name that is
\* registered, else the provider is stored under its name
McpRegister(provs, cls) ==
    IF ProviderName(cls) = "" THEN [raised |-> "ValueError", providers |-> provs]
    ELSE IF ProviderName(cls) \in ProviderKeys(provs)
    THEN [raised |-> "ValueError", providers |-> provs]
    ELSE [raised |-> "none", providers |-> Append(provs, cls)]

\* MCPRegistry.get: KeyError for a name that is not registered
McpGet(provs, name) ==
    IF name \notin ProviderKeys(provs)
    THEN [raised |-> "KeyError", result |-> << >>]
    ELSE [raised |-> "none",
          result |-> SelectSeq(provs, LAMBDA cls : ProviderName(cls) = name)]

\* MCPRegistry.list_all
McpListAll(provs) == provs

\* the import of a module fails when it or a module it imports fails
ImportFails(module, failing) ==
    \/ module \in failing
    \/ module = "granola" /\ failing \cap {"granola_cache", "granola_mcp"} # {}

\* the loop of auto_discover over dir(module): a class with a name that is
\* not registered is instantiated and registered; an exception ends the
\* loop over this module
RECURSIVE DiscoverClasses(_, _)
DiscoverClasses(provs, classes) ==
    IF classes = << >> THEN provs
    ELSE LET cls == Head(classes)
         IN  IF ProviderName(cls) # "" /\ ProviderName(cls) \notin ProviderKeys(provs)
             THEN IF McpRegister(provs, cls).raised # "none" THEN provs
                  ELSE DiscoverClasses(McpRegister(provs, cls).providers, Tail(classes))
             ELSE DiscoverClasses(provs, Tail(classes))

\* MCPRegistry.auto_discover: module by module; a module whose import
\* fails is logged and passed over
RECURSIVE McpAutoDiscover(_, _, _)
McpAutoDiscover(provs, modules, failing) ==
    IF modules = << >> THEN provs
    ELSE McpAutoDiscover(
            IF ImportFails(Head(modules), failing) THEN provs
            ELSE DiscoverClasses(provs, ModuleClasses(Head(modules))),
            Tail(modules), failing)

\* mcp_registry.register(cls())
mcp_register(cls) ==
    /\ providers' = McpRegister(providers, cls).providers
    /\ provcall' = [op |-> "register", arg |-> cls,
                    raised |-> McpRegister(providers, cls).raised,
                    result |-> << >>, statuses |-> << >>]
    /\ UNCHANGED <<orchestration, registry, granola, graphrun>>

\* mcp_registry.get(name)
mcp_get(name) ==
    /\ provcall' = [op |-> "get", arg |-> name,
                    raised |-> McpGet(providers, name).raised,
                    result |-> McpGet(providers, name).result, statuses |-> << >>]
    /\ UNCHANGED <<providers, orchestration, registry, granola, graphrun>>

\* mcp_registry.list_all()
mcp_list_all ==
    /\ provcall' = [op |-> "list_all", arg |-> "", raised |-> "none",
                    result |-> McpListAll(providers), statuses |-> << >>]
    /\ UNCHANGED <<providers, orchestration, registry, granola, graphrun>>

\* mcp_registry.auto_discover(), with the modules whose import fails
mcp_auto_discover(failing) ==
    /\ providers' = McpAutoDiscover(providers, ProviderModules, failing)
    /\ provcall' = [op |-> "auto_discover", arg |-> "", raised |-> "none",
                    result |-> << >>, statuses |-> << >>]
    /\ UNCHANGED <<orchestration, registry, granola, graphrun>>

\* what provider.health_check() yields for a registered provider: for the
\* composite its health_check, for GCalProvider the outcome gcal_out
ProviderOutcomes == ProviderStatus \cup {"raises"}

ProviderHealth(cls, gcal_out, ping_ok, file) ==
    IF cls = "GranolaProvider" THEN HealthCheck(mcp, cache, ping_ok, file) ELSE gcal_out

\* MCPRegistry.health_check_all: the status of each registered provider
\* under its name, disconnected for one whose health_check raises
McpHealthCheckAll(provs, gcal_out, ping_ok, file) ==
    [n \in DOMAIN provs |->
        IF ProviderHealth(provs[n], gcal_out, ping_ok, file) = "raises" THEN "disconnected"
        ELSE ProviderHealth(provs[n], gcal_out, ping_ok, file)]

\* mcp_registry.health_check_all()
mcp_health_check_all(gcal_out, ping_ok, file) ==
    /\ provcall' = [op |-> "health_check_all", arg |-> "", raised |-> "none",
                    result |-> providers,
                    statuses |-> McpHealthCheckAll(providers, gcal_out, ping_ok, file)]
    /\ UNCHANGED <<providers, orchestration, registry, granola, graphrun>>

\* ConnectionService.connect_with_tokens("granola", tokens): the provider
\* that registry.get returns is connected; KeyError without one
connect_with_tokens(has_token, init_ok, file) ==
    /\ McpGet(providers, "granola").raised = "none"
    /\ connect(has_token, init_ok, file)

\* ConnectionService.disconnect("granola")
disconnect_provider ==
    /\ McpGet(providers, "granola").raised = "none"
    /\ disconnect

\* the SchedulerService entry points and what they run
SchedulerNext ==
    \/ \E i \in Slots, p \in PipelineArgs, healthy \in BOOLEAN : TimerFire(i, p, healthy)
    \/ \E i \in Slots, p \in PipelineArgs, healthy \in BOOLEAN : trigger_pipeline(i, p, healthy)
    \/ \E i \in Slots, out \in ControlOutcomes : FinishAgent(i, out)
    \/ \E i \in Slots : Cancel(i)
    \/ \E i \in Slots : release_sync_lock(i)
    \/ \E i \in Slots : Crash(i)
    \/ \E i \in Slots, healthy \in BOOLEAN : Refire(i, healthy)
    \/ \E k \in LockKeys : Expire(k)

\* the route handlers that call run_agent_with_logging themselves
RouteNext ==
    \/ \E i \in Slots, healthy \in BOOLEAN : trigger_full_pipeline(i, healthy)
    \/ \E i \in Slots, healthy \in BOOLEAN : trigger_sync(i, healthy)
    \/ \E i \in Slots, a \in AGENT_EXECUTORS, healthy \in BOOLEAN : trigger_agent(i, a, healthy)

\* the passing of time, the routes of routes/status.py, and agent calls
\* that return errors
StatusNext ==
    \/ \E i \in Slots : Age(i)
    \/ get_system_status
    \/ \E i \in Slots, a \in AGENT_EXECUTORS : cancel_run(i, a)
    \/ \E i \in Slots, out \in Outcomes : FinishAgent(i, out)

\* manually triggered pipeline runs and the routes of routes/status.py
ManualNext ==
    \/ \E i \in Slots, p \in PipelineArgs, healthy \in BOOLEAN : trigger_pipeline(i, p, healthy)
    \/ \E i \in Slots : release_sync_lock(i)
    \/ \E i \in Slots : Crash(i)
    \/ StatusNext

\* one direct agent call, with every result execute_fn can return
TrackerNext ==
    \/ \E a \in AGENT_EXECUTORS : trigger_agent(1, a, TRUE)
    \/ \E out \in AllOutcomes : FinishAgent(1, out)

\* calls on an AgentRegistry
RegistryNext ==
    \/ \E cls \in AgentClasses : auto_discover(cls)
    \/ \E p \in PipelineArgs : resolve_dependencies(p)
    \/ \E p \in PipelineArgs : build_graph(p)
    \/ validate

\* register calls alone
RegisterNext == \E agent \in AgentClasses : register(agent)

\* calls on the granola provider
GranolaNext ==
    \/ \E has_token, init_ok \in BOOLEAN, file \in CacheFiles : connect(has_token, init_ok, file)
    \/ disconnect
    \/ \E tool \in Tools, server_ok, readable \in BOOLEAN : execute_tool(tool, server_ok, readable)
    \/ \E ping_ok \in BOOLEAN, file \in CacheFiles : health_check(ping_ok, file)

\* the agents are discovered, the graph of a pipeline is built and run
GraphNext ==
    \/ \E cls \in AgentClasses : auto_discover(cls)
    \/ \E p \in PipelineArgs : build_graph(p)
    \/ start_graph
    \/ \E should, raises \in BOOLEAN, e \in 0..MaxCount : node_fn(should, raises, e)

\* the calls of the provider registry
McpRegistryNext ==
    \/ \E cls \in ProviderClasses : mcp_register(cls)
    \/ \E name \in ProviderNames : mcp_get(name)
    \/ mcp_list_all
    \/ \E failing \in SUBSET {ProviderModules[n] : n \in DOMAIN ProviderModules} :
            mcp_auto_discover(failing)
    \/ \E gcal_out \in ProviderOutcomes, ping_ok \in BOOLEAN, file \in CacheFiles :
            mcp_health_check_all(gcal_out, ping_ok, file)
    \/ \E has_token, init_ok \in BOOLEAN, file \in CacheFiles :
            connect_with_tokens(has_token, init_ok, file)
    \/ disconnect_provider

\* process startup
StartupNext ==
    \/ \E cls \in AgentClasses : auto_discover(cls)
    \/ lifespan

Next == SchedulerNext \/ RouteNext \/ StatusNext

\* every entry point
Spec == Init /\ [][Next]_vars

\* the invocations of SchedulerService alone
SchedulerSpec == Init /\ [][SchedulerNext]_vars

\* manual pipeline runs observed and cancelled through the status routes
StatusSpec == Init /\ [][ManualNext]_vars

\* run_agent_with_logging on every result of execute_fn
TrackerSpec == Init /\ [][TrackerNext]_vars

\* an AgentRegistry with every set of agent classes
RegistrySpec == Init /\ [][RegistryNext]_vars

\* register called with every sequence of agents
RegisterSpec == Init /\ [][RegisterNext]_vars

\* the granola provider with every state of its two sub-providers
GranolaSpec == Init /\ [][GranolaNext]_vars

\* the graph of build_graph and its runs
GraphSpec == Init /\ [][GraphNext]_vars

\* the provider registry and the calls made on it
McpRegistrySpec == Init /\ [][McpRegistryNext]_vars

\* startup of the backend process with every set of agent classes
StartupSpec == Init /\ [][StartupNext]_vars

\* Spec with the scheduling the runtime guarantees: redis expiry and the
\* interval jobs; a request to a route comes only when a client sends it
FairSpec ==
    /\ Spec
    /\ \A k \in LockKeys : WF_vars(Expire(k))
    /\ \A i \in Slots : WF_vars(\E healthy \in BOOLEAN : Refire(i, healthy))

\* SchedulerSpec with the scheduling the runtime guarantees: redis expires a
\* key whose ttl has elapsed, and an interval job whose fire was skipped
\* fires again at its next interval
LiveSpec ==
    /\ SchedulerSpec
    /\ \A k \in LockKeys : WF_vars(Expire(k))
    /\ \A i \in Slots : WF_vars(\E healthy \in BOOLEAN : Refire(i, healthy))

TypeOK ==
    /\ entry \in [Slots -> Entries \cup {"none"}]
    /\ pc \in [Slots -> {"idle", "exec", "release", "done", "crashed"}]
    /\ \A i \in Slots : runlog[i] \in [AGENT_EXECUTORS -> RunStatus]
    /\ \A k \in LockKeys : lock[k] \in {0, DEFAULT_LOCK_TTL, TRIGGER_LOCK_TTL}
    /\ \A k \in LockKeys : holders[k] \subseteq Slots
    /\ \A i \in Slots : pc[i] = "exec" => idx[i] \in 1..Len(steps[i])
    /\ faults \in 0..MaxFaults
    /\ \A i \in Slots : returned[i] \in [ResultKeys \cup {"run_id"} -> Int]
    /\ \A i \in Slots : fnresult[i] \in ResultDicts \cup {NoResult}
    /\ \A i \in Slots : Len(rowdata[i]) = Len(invoked[i])
    /\ \A i \in Slots, a \in AGENT_EXECUTORS :
            /\ RowIn(rowdata[i], a).errors_count \in 0..(MaxCount + 1)
            /\ (runlog[i][a] = "none") = (RowIn(rowdata[i], a) = NoRow)
            /\ runlog[i][a] = "running" => pc[i] \in {"exec", "release", "done", "crashed"}
                                            /\ a = steps[i][idx[i]]
    /\ agents \in Seq(AgentClasses) /\ Len(agents) <= MaxAgents
    /\ regcall \in [op : {"none", "register", "resolve_dependencies", "build_graph",
                           "validate", "auto_discover", "lifespan"},
                     arg : AgentNames \cup PipelineArgs \cup {""},
                     raised : {"none", "ValueError", "CycleError"}]
    /\ order \in Seq(AgentNames)
    /\ issues \in Seq(AgentNames \X AgentNames)
    /\ started \in BOOLEAN
    /\ mcp \in [connected : BOOLEAN, access_token : BOOLEAN] /\ (mcp.connected => mcp.access_token)
    /\ cache \in [connected : BOOLEAN]
    /\ last_source \in {"unknown", "mcp", "cache"}
    /\ toolcall.tool \in Tools \cup {"none"}
    /\ toolcall.value \in {"none", "mcp", "cache"}
    /\ conncall \in [has_token : BOOLEAN, cache_tried : BOOLEAN, mcp_tried : BOOLEAN,
                     cache_ok : BOOLEAN, mcp_ok : BOOLEAN, returned : BOOLEAN]
    /\ healthcall \in [mcp_connected : BOOLEAN, cache_connected : BOOLEAN,
                       mcp_status : ProviderStatus \cup {"none"},
                       cache_status : ProviderStatus \cup {"none"},
                       result : ProviderStatus \cup {"none"}]
    /\ lastcall \in {"none", "connect", "disconnect", "execute_tool", "health_check"}
    /\ offline \in BOOLEAN
    /\ providers \in Seq(ProviderClasses) /\ Len(providers) <= 4
    /\ provcall.op \in {"none", "register", "get", "list_all", "auto_discover",
                       "health_check_all"}
    /\ provcall.statuses \in Seq(ProviderStatus)
    /\ nodes \in Seq(AgentNames) /\ Len(nodes) <= MaxAgents
    /\ nodepos \in 0..(Len(nodes) + 1)
    /\ pstate.errors \in 0..(MaxAgents * MaxCount)
    /\ pstate.done \in Seq(AgentNames) /\ Len(pstate.done) <= MaxAgents
    /\ nodecall.agent \in AgentNames \cup {""}
    /\ nodecall.should_run \in BOOLEAN /\ nodecall.processed \in BOOLEAN
    /\ nodecall.raised \in BOOLEAN
    /\ provcall.raised \in {"none", "ValueError", "KeyError"}
    /\ provcall.result \in Seq(ProviderClasses)

\* ------------------------------------------------------------- vocabulary
\* the AgentRunLog row of agent a written by invocation i
Row(i, a) == RowIn(rowdata[i], a)

Range(f) == {f[n] : n \in DOMAIN f}

IsSchedulerRun(i) == entry[i] \in SchedulerEntries

\* i is between its successful acquire_sync_lock and its release_sync_lock
\* on key k, in a live process
Holding(i, k) ==
    /\ IsSchedulerRun(i)
    /\ LockKeyOf(i) = k
    /\ acquired[i]
    /\ pc[i] \in {"exec", "release"}

\* i saw its lock key taken and returned
Contended(i) == IsSchedulerRun(i) /\ pc[i] = "done" /\ result[i] = "skipped_running"

\* i has not called any agent, written any AgentRunLog row or issued DEL
DidNothing(i) == invoked[i] = << >> /\ runlog[i] = NoRuns /\ ~deleted[i]

\* the step is a call of acquire_sync_lock by i, for pipeline p: the first
\* one of an invocation, or the one of a later fire that takes the lock
AcquireStep(i, p) ==
    /\ \/ pc[i] = "idle" /\ pc'[i] # "idle"
       \/ Contended(i) /\ ~Contended(i)'
    /\ entry'[i] \in SchedulerEntries
    /\ pipeline'[i] = p

\* ------------------------------------------------------------------- C1
\* C1: for each lock key, at most one invocation is between a successful
\* acquire_sync_lock and its release_sync_lock at any instant, also when
\* runs last longer than the ttl of the lock.
C1_AtMostOneHolder ==
    \A k \in LockKeys : Cardinality({i \in Slots : Holding(i, k)}) <= 1

\* ------------------------------------------------------------------- C2
\* C2: of the acquire attempts on one lock key that is free, exactly one
\* succeeds: an attempt on a free key succeeds, no second attempt succeeds
\* while the key exists, and an invocation that saw contention has invoked
\* no agent, created no RunRecord and not deleted the key.
C2_OneAcquireWins ==
    /\ [](\A k \in LockKeys : Cardinality(holders[k]) <= 1)
    /\ [](\A i \in Slots : Contended(i) => ~acquired[i] /\ DidNothing(i))
    /\ [][\A i \in Slots, p \in PipelineArgs :
            AcquireStep(i, p) =>
                /\ acquired'[i] = (lock[LockKeyFor(entry'[i], p)] = 0)
                /\ lock'[LockKeyFor(entry'[i], p)] # 0
                /\ ~acquired'[i] => Contended(i)' /\ lock' = lock]_vars

\* two invocations raced for a key: one holds it, the other was skipped
C2_Witness ==
    \E i, j \in Slots :
        /\ i # j
        /\ LockKeyOf(i) = LockKeyOf(j)
        /\ Holding(i, LockKeyOf(i)) /\ holders[LockKeyOf(i)] = {i}
        /\ Contended(j) /\ DidNothing(j)

\* ------------------------------------------------------------------- C3
\* C3: every manual trigger takes the pipeline lock before it runs agents of
\* the sync pipeline, so no manually triggered execution of a sync agent
\* overlaps with a scheduled run of the sync pipeline.
C3_ManualUnderLock ==
    \A j \in Slots :
        (entry[j] \in Entries \ {"scheduled"} /\ pc[j] = "exec"
            /\ AgentPipeline(steps[j][idx[j]]) = "sync")
        => /\ acquired[j]
           /\ \A i \in Slots :
                ~(entry[i] = "scheduled" /\ pipeline[i] = "sync" /\ pc[i] = "exec")

\* ------------------------------------------------------------------- C4
\* C4: trigger_pipeline called while a scheduled run holds the lock of its
\* pipeline returns the result skipped / "Pipeline already running", invokes
\* no agent and creates no RunRecord.
HeldByScheduled(k) == lock[k] # 0 /\ \E j \in holders[k] : entry[j] = "scheduled" /\ Holding(j, k)

C4_TriggerSkipsWhenHeld ==
    /\ [][\A i \in Slots, p \in PipelineArgs :
            (AcquireStep(i, p) /\ entry'[i] = "trigger_pipeline"
                /\ HeldByScheduled(LockKeyFor("trigger_pipeline", p)))
            => (pc'[i] = "done" /\ result'[i] = "skipped_running")]_vars
    /\ [](\A i \in Slots :
            (entry[i] = "trigger_pipeline" /\ result[i] = "skipped_running")
            => (pc[i] = "done" /\ invoked[i] = << >> /\ runlog[i] = NoRuns))

C4_Witness ==
    \E i, j \in Slots :
        /\ entry[i] = "trigger_pipeline" /\ pc[i] = "done" /\ result[i] = "skipped_running"
        /\ pipeline[i] = "sync"
        /\ entry[j] = "scheduled" /\ Holding(j, LockKeyOf(i)) /\ j \in holders[LockKeyOf(i)]
        /\ runlog[i] = NoRuns

\* ------------------------------------------------------------------- C5
\* C5: an invocation that acquired a pipeline lock has deleted the key when
\* it has ended, on the normal path and when an exception escaped; a lock key
\* that exists was set by a run that has not ended (or whose process died).
C5_ReleasedAtEnd ==
    /\ \A i \in Slots : (IsSchedulerRun(i) /\ acquired[i] /\ pc[i] = "done") => deleted[i]
    /\ \A k \in LockKeys :
        lock[k] # 0 => \E j \in holders[k] : pc[j] \in {"exec", "release", "crashed"}

\* a run ended by an escaping exception, and its lock key is gone
C5_Witness ==
    \E i \in Slots :
        /\ IsSchedulerRun(i) /\ acquired[i] /\ pc[i] = "done"
        /\ result[i] = "cancelled" /\ deleted[i]
        /\ lock[LockKeyOf(i)] = 0

\* ------------------------------------------------------------------- C6
\* C6: when the process holding a pipeline lock has died, the key expires
\* and an interval job of that pipeline that keeps firing eventually
\* acquires the lock and runs its agents.
DeadHolder(k) == lock[k] # 0 /\ \E j \in holders[k] : pc[j] = "crashed"

Waiting(i) == entry[i] = "scheduled" /\ Contended(i)

C6_DeadHolderDoesNotBlock ==
    \A i \in Slots :
        (Waiting(i) /\ DeadHolder(LockKeyOf(i))) ~> (acquired[i] /\ pc[i] = "exec")

\* a job runs under the lock although an earlier holder died without DEL
C6_Witness ==
    \E i, j \in Slots :
        /\ i # j /\ LockKeyOf(i) = LockKeyOf(j)
        /\ pc[j] = "crashed" /\ acquired[j] /\ ~deleted[j]
        /\ entry[i] = "scheduled" /\ holders[LockKeyOf(i)] = {i} /\ pc[i] = "exec"

\* ------------------------------------------------------------------- C7
\* C7: the two pipelines use distinct lock keys: an acquire of the briefing
\* pipeline succeeds whenever the briefing key is free, whatever the state of
\* the sync key, and the same with the roles exchanged.
C7_IndependentLocks ==
    /\ SYNC_LOCK_KEY # BRIEFING_LOCK_KEY
    /\ [][\A i \in Slots :
            /\ (AcquireStep(i, "briefing") /\ lock[BRIEFING_LOCK_KEY] = 0)
                => (acquired'[i] /\ lock'[SYNC_LOCK_KEY] = lock[SYNC_LOCK_KEY])
            /\ (AcquireStep(i, "sync") /\ lock[SYNC_LOCK_KEY] = 0)
                => (acquired'[i] /\ lock'[BRIEFING_LOCK_KEY] = lock[BRIEFING_LOCK_KEY])]_vars

\* both pipelines are locked-running at the same time
C7_Witness ==
    \E i, j \in Slots :
        /\ pipeline[i] = "sync" /\ Holding(i, SYNC_LOCK_KEY) /\ pc[i] = "exec"
        /\ pipeline[j] = "briefing" /\ Holding(j, BRIEFING_LOCK_KEY) /\ pc[j] = "exec"
        /\ lock[SYNC_LOCK_KEY] # 0 /\ lock[BRIEFING_LOCK_KEY] # 0

\* ------------------------------------------------------------------- C8
\* C8: in every pipeline run of SchedulerService, an agent's step starts
\* only after the step of each agent it declares as a dependency in the same
\* pipeline has been run in that run.
C8_DependenciesFirst ==
    \A i \in Slots :
        IsSchedulerRun(i) =>
            \A n \in DOMAIN invoked[i] :
                DepsInPipeline(invoked[i][n]) \subseteq {invoked[i][m] : m \in 1..(n - 1)}

Ungated(st) == {st[n] : n \in {m \in DOMAIN st : ~HealthGated(st[m])}}

C10_SequentialSteps ==
    \A i \in Slots :
        /\ Cardinality(active[i]) <= 1
        /\ \A n \in DOMAIN invoked[i] :
            n < Len(invoked[i]) =>
                /\ invoked[i][n] \notin active[i]
                /\ runlog[i][invoked[i][n]] \in {"completed", "failed"}
        /\ pc[i] = "exec" => active[i] = {steps[i][idx[i]]}

\* the third step of a sync run executes, the first two are over
C10_Witness ==
    \E i \in Slots :
        /\ IsSchedulerRun(i) /\ pc[i] = "exec" /\ Len(invoked[i]) = 3
        /\ active[i] = {"relationship_builder"}
        /\ runlog[i]["meeting_sync"] = "completed"
        /\ runlog[i]["profile_builder"] = "completed"

\* ------------------------------------------------------------------ C11
\* C11: once the status of a RunRecord is "completed" or "failed", no later
\* operation (tracker completion, stale sweep, cancel_run) changes it.
C11_StatusMonotonic ==
    [][\A i \in Slots, a \in AGENT_EXECUTORS :
            runlog[i][a] \in {"completed", "failed"} => runlog'[i][a] = runlog[i][a]]_vars

\* ------------------------------------------------------------------ C12
\* C12: one stale sweep sets every row that is "running" and older than the
\* timeout to "failed" with the summary "Timed out after 10 minutes", and
\* leaves every other row as it was.
SweepStep == \E i \in Slots, a \in AGENT_EXECUTORS : Row(i, a)'.sweeps # Row(i, a).sweeps

C12_SweepFrame ==
    [][SweepStep =>
        \A i \in Slots, a \in AGENT_EXECUTORS :
            IF runlog[i][a] = "running" /\ stale[i]
            THEN /\ runlog'[i][a] = "failed"
                 /\ Row(i, a)'.result_summary = "Timed out after 10 minutes"
            ELSE runlog'[i][a] = runlog[i][a] /\ Row(i, a)' = Row(i, a)]_vars

TimedOut(i, a) ==
    /\ runlog[i][a] = "failed"
    /\ Row(i, a).result_summary = "Timed out after 10 minutes"
    /\ Row(i, a).sweeps = 1

\* a sweep has failed one stale row next to a completed row and to a
\* running row that is younger than the timeout
C12_Witness ==
    \E i, j \in Slots, a, b, c \in AGENT_EXECUTORS :
        /\ TimedOut(i, a)
        /\ runlog[i][b] = "completed"
        /\ runlog[j][c] = "running" /\ ~stale[j]

\* ------------------------------------------------------------------ C13
\* C13: the sweep is idempotent: it updates a stale running row once, and
\* after a sweep no row matches the stale update any more, so a second
\* sweep right after it changes nothing.
C13_SweepIdempotent ==
    /\ [](\A i \in Slots, a \in AGENT_EXECUTORS : Row(i, a).sweeps <= 1)
    /\ [][SweepStep =>
            \A i \in Slots, a \in AGENT_EXECUTORS : ~IsStale(runlog', stale', i, a)]_vars

\* a row was swept and is still older than the timeout
C13_Witness ==
    \E i \in Slots, a \in AGENT_EXECUTORS :
        TimedOut(i, a) /\ stale[i] /\ Row(i, a).errors_count = 1

\* ------------------------------------------------------------------ C14
\* C14: the row of a run whose process crashed while the row was "running"
\* eventually becomes "failed" through the sweep, with the scheduling of the
\* backend alone and no request to a route.
C14_CrashedRunEventuallyFailed ==
    \A i \in Slots, a \in AGENT_EXECUTORS :
        (pc[i] = "crashed" /\ runlog[i][a] = "running") ~> (runlog[i][a] = "failed")

\* ------------------------------------------------------------------ C15
\* C15: run_agent_with_logging has committed a row with status "running"
\* and the id, pipeline, agent name and trigger of the call when the wrapped
\* function starts, and the row is there for as long as the function runs.
LastInvoked(i) == invoked[i][Len(invoked[i])]

C15_RowBeforeCall ==
    /\ [][\A i \in Slots :
            invoked'[i] # invoked[i] =>
                /\ runlog'[i][LastInvoked(i)'] = "running"
                /\ RowIn(rowdata'[i], LastInvoked(i)') =
                      [id |-> RunId(i, idx'[i]),
                       pipeline |-> AgentPipeline(LastInvoked(i)'),
                       agent_name |-> LastInvoked(i)',
                       trigger |-> TriggerOf(entry'[i]),
                       result_summary |-> "", errors_count |-> 0, sweeps |-> 0]]_vars
    /\ [](\A i \in Slots : \A a \in active[i] :
            /\ runlog[i][a] # "none"
            /\ Row(i, a).id = RunId(i, idx[i])
            /\ Row(i, a).agent_name = a
            /\ Row(i, a).trigger = TriggerOf(entry[i]))

\* the second agent of a scheduled run is executing under its running row
C15_Witness ==
    \E i \in Slots :
        /\ Len(invoked[i]) >= 2
        /\ LastInvoked(i) \in active[i]
        /\ runlog[i][LastInvoked(i)] = "running"
        /\ Row(i, LastInvoked(i)).trigger = "scheduled"

\* ------------------------------------------------------------------ C16
\* C16: when the wrapped function returns normally, the row is "failed"
\* exactly when the error list of the result is not empty and no progress
\* count of the result (new, updated, processed, meetings_processed) is
\* positive, and "completed" otherwise.
ProgressKeys == {"new", "updated", "processed", "meetings_processed"}

\* run_agent_with_logging of the only agent call of i has returned a dict
ReturnedNormally(i) ==
    /\ pc[i] = "done" /\ Len(invoked[i]) = 1
    /\ returned[i] # NoReturn

C16_FailedIffErrorsAndNoProgress ==
    \A i \in Slots :
        ReturnedNormally(i) =>
            /\ runlog[i][LastInvoked(i)] \in {"failed", "completed"}
            /\ (runlog[i][LastInvoked(i)] = "failed") <=>
                   /\ fnresult[i]["errors"] > 0
                   /\ \A k \in ProgressKeys : fnresult[i][k] <= 0

\* ------------------------------------------------------------------ C17
\* C17: when the wrapped function raises, run_agent_with_logging sets the
\* row to "failed" with errors_count 1 and a summary made of the exception
\* message, returns nothing and raises the exception to its caller.
RaisedInOnlyCall(i) ==
    /\ pc[i] = "done" /\ Len(invoked[i]) = 1
    /\ LastInvoked(i) \in raisedIn[i]

C17_RaiseMarksFailedAndPropagates ==
    \A i \in Slots :
        RaisedInOnlyCall(i) =>
            /\ runlog[i][LastInvoked(i)] = "failed"
            /\ Row(i, LastInvoked(i)).errors_count = 1
            /\ Row(i, LastInvoked(i)).result_summary = "Error: exc"
            /\ returned[i] = NoReturn
            /\ result[i] = "raised"

\* a directly triggered agent raised
C17_Witness ==
    \E i \in Slots :
        /\ RaisedInOnlyCall(i)
        /\ entry[i] = "trigger_agent"
        /\ runlog[i][LastInvoked(i)] = "failed"
        /\ result[i] = "raised"

\* ------------------------------------------------------------------ C18
\* C18: on success run_agent_with_logging returns the result of the wrapped
\* function with one more key: every key of the result has its value in the
\* returned mapping, a key the result does not have is not added, and
\* run_id is the id of the row written for the call.
C18_ResultPlusRunId ==
    \A i \in Slots :
        ReturnedNormally(i) =>
            /\ \A k \in ResultKeys : returned[i][k] = fnresult[i][k]
            /\ returned[i]["run_id"] = Row(i, LastInvoked(i)).id
            /\ returned[i]["run_id"] = RunId(i, 1)

\* a result with several keys was returned with the run id
C18_Witness ==
    \E i \in Slots :
        /\ ReturnedNormally(i)
        /\ fnresult[i]["errors"] = 1 /\ fnresult[i]["processed"] = 1
        /\ fnresult[i]["new"] = Absent
        /\ returned[i]["processed"] = 1 /\ returned[i]["new"] = Absent
        /\ returned[i]["run_id"] = RunId(i, 1)

\* ------------------------------------------------------------------ C19
\* C19: cancel_run on a "running" row sets it to "failed" with the summary
\* "Cancelled by user" and touches nothing of the run: the agent call goes
\* on, and when it ends the run calls its next agent.
CancelledRow(i, a) ==
    /\ runlog[i][a] = "failed"
    /\ Row(i, a).result_summary = "Cancelled by user"

CancelStep(i, a) == runlog[i][a] = "running" /\ CancelledRow(i, a)'

C19_CancelIsRecordOnly ==
    /\ [][\A i \in Slots, a \in AGENT_EXECUTORS :
            CancelStep(i, a) =>
                /\ Row(i, a)'.errors_count = 1
                /\ pc'[i] = pc[i] /\ idx'[i] = idx[i] /\ result'[i] = result[i]
                /\ active'[i] = active[i] /\ invoked'[i] = invoked[i]]_vars
    /\ [][\A i \in Slots :
            (/\ pc[i] = "exec" /\ CancelledRow(i, steps[i][idx[i]])
             /\ active'[i] # active[i] /\ pc'[i] # "crashed"
             /\ idx[i] < Len(steps[i]))
            => /\ pc'[i] = "exec" /\ idx'[i] = idx[i] + 1
               /\ invoked'[i] = Append(invoked[i], steps[i][idx[i] + 1])
               /\ runlog'[i][steps[i][idx[i] + 1]] = "running"]_vars

\* the row of the first agent of a pipeline run was cancelled and the agent
\* is still running
C19_Witness ==
    \E i \in Slots :
        /\ pc[i] = "exec" /\ idx[i] < Len(steps[i])
        /\ CancelledRow(i, steps[i][idx[i]])
        /\ steps[i][idx[i]] \in active[i]

\* ------------------------------------------------------------------ C20
\* C20: trigger_pipeline never lets an exception of an agent step through:
\* whatever steps fail, a call for one of the two pipelines ends with the
\* result "completed" and an errors list, or with the skipped result of a
\* pipeline that is already running, which has run nothing.
C20_TriggerNeverRaises ==
    \A i \in Slots :
        entry[i] = "trigger_pipeline" =>
            /\ result[i] # "raised"
            /\ (pc[i] \in {"release", "done"} /\ pipeline[i] \in {"sync", "briefing"})
                => result[i] \in {"completed", "skipped_running"}
            /\ result[i] = "skipped_running" => invoked[i] = << >> /\ ~acquired[i]
            /\ result[i] = "completed" =>
                /\ Len(invoked[i]) \in {Len(steps[i]), Len(steps[i]) - 1}
                /\ errors[i] \in 0..(2 * MaxCount)
                /\ pipeline[i] = "briefing" => errors[i] = 0

\* a manual sync run returned "completed" although one of its agents raised
C20_Witness ==
    \E i \in Slots :
        /\ entry[i] = "trigger_pipeline" /\ pipeline[i] = "sync"
        /\ pc[i] = "done" /\ result[i] = "completed"
        /\ raisedIn[i] # {}
        /\ Len(invoked[i]) = 4

\* ------------------------------------------------------------------ C21
\* C21: the errors list in the result of a pipeline run contains every
\* error entry that the agent steps of the run returned: when the run has
\* ended, the list is as long as the errors lists of its steps together.
RECURSIVE SumErrorsCount(_)
SumErrorsCount(rows) ==
    IF rows = << >> THEN 0 ELSE Head(rows).errors_count + SumErrorsCount(Tail(rows))

\* the error entries returned by the steps of invocation i that returned:
\* errors_count of the rows they completed
ReportedErrors(i) ==
    SumErrorsCount(SelectSeq(rowdata[i], LAMBDA r : r.agent_name \notin raisedIn[i]))

C21_NoErrorDropped ==
    \A i \in Slots :
        (IsSchedulerRun(i) /\ pc[i] \in {"release", "done"} /\ result[i] = "completed")
        => errors[i] = ReportedErrors(i)

\* ----------------------------------------------- vocabulary: the registry
\* the registered agent named x
Registered(x) == \E n \in DOMAIN agents : agents[n].name = x

\* the registered agent named x has pipeline label p
InPipeline(x, p) == \E n \in DOMAIN agents : agents[n].name = x /\ agents[n].pipeline = p

\* the registered agent named x declares the name d as a dependency
Declares(x, d) ==
    \E n \in DOMAIN agents :
        agents[n].name = x /\ \E k \in DOMAIN agents[n].dependencies : agents[n].dependencies[k] = d

\* x and its declared dependency d are both agents of pipeline p
DependsOn(x, d, p) == InPipeline(x, p) /\ InPipeline(d, p) /\ Declares(x, d)

\* the dependencies among the agents of pipeline p contain a cycle: some
\* agents depend on one another in a ring
Cyclic(p) ==
    \E k \in 1..MaxAgents :
        \E ring \in [1..k -> AgentNames] :
            \A j \in 1..k : DependsOn(ring[j], ring[(j % k) + 1], p)

\* the last call on the registry was op(p)
Called(op, p) == regcall.op = op /\ regcall.arg = p

\* x is before y in the list returned last
Before(x, y) == \E i, j \in DOMAIN order : i < j /\ order[i] = x /\ order[j] = y

\* ------------------------------------------------------------------ C22
\* C22: for every set of registered agents and every pipeline label whose
\* agents have acyclic dependencies, resolve_dependencies returns a list in
\* which every agent comes after each of its dependencies that belongs to
\* the same pipeline.
C22_DependenciesBeforeDependents ==
    \A p \in PipelineArgs :
        (Called("resolve_dependencies", p) /\ ~Cyclic(p)) =>
            /\ regcall.raised = "none"
            /\ \A x, d \in AgentNames : DependsOn(x, d, p) => Before(d, x)

\* three agents of one pipeline, each registered before the one it depends
\* on, were put in the opposite order
C22_Witness ==
    /\ regcall.op = "resolve_dependencies" /\ regcall.raised = "none"
    /\ Len(agents) = 3 /\ Len(order) = 3
    /\ DependsOn(agents[1].name, agents[2].name, regcall.arg)
    /\ DependsOn(agents[2].name, agents[3].name, regcall.arg)
    /\ order = <<agents[3].name, agents[2].name, agents[1].name>>

\* ------------------------------------------------------------------ C23
\* C23: the list resolve_dependencies(p) returns has each registered agent
\* with pipeline label p once and no other name; a dependency on an agent
\* of another pipeline or on a name that is not registered is ignored: it
\* is not in the list and the call raises only for a cycle inside p.
C23_ExactlyThePipeline ==
    \A p \in PipelineArgs :
        Called("resolve_dependencies", p) =>
            /\ regcall.raised = "none" =>
                /\ {order[k] : k \in DOMAIN order} = {x \in AgentNames : InPipeline(x, p)}
                /\ \A j, k \in DOMAIN order : order[j] = order[k] => j = k
            /\ regcall.raised # "none" => Cyclic(p)

\* an agent that declares an agent of the other pipeline and a name that is
\* not registered was resolved alone
C23_Witness ==
    /\ regcall.op = "resolve_dependencies" /\ regcall.raised = "none"
    /\ Len(order) = 1
    /\ \E d, u \in AgentNames :
        /\ Declares(order[1], d) /\ Registered(d) /\ ~InPipeline(d, regcall.arg)
        /\ Declares(order[1], u) /\ ~Registered(u)

\* ------------------------------------------------------------------ C24
\* C24: when the dependencies among the agents of a pipeline contain a
\* cycle (also: A depends on B and B on A), resolve_dependencies and
\* build_graph raise the cycle error and return no order.
C24_CycleRaises ==
    \A p \in PipelineArgs :
        ((Called("resolve_dependencies", p) \/ Called("build_graph", p)) /\ Cyclic(p))
        => regcall.raised = "CycleError" /\ order = << >>

\* build_graph raised the cycle error for two agents that depend on each
\* other
C24_Witness ==
    /\ regcall.op = "build_graph" /\ regcall.raised = "CycleError"
    /\ \E x, y \in AgentNames :
        x # y /\ DependsOn(x, y, regcall.arg) /\ DependsOn(y, x, regcall.arg)

\* ------------------------------------------------------------------ C25
\* C25: validate returns one issue for each reference of an agent to a name
\* that is not registered, made of the agent and the name; the list is
\* empty exactly when every declared dependency is a registered agent; the
\* registry is not modified.
UnresolvedReferences ==
    {r \in (DOMAIN agents) \X (1..MaxDeps) :
        /\ r[2] \in DOMAIN agents[r[1]].dependencies
        /\ ~Registered(agents[r[1]].dependencies[r[2]])}

C26_CrossPipelineReported ==
    regcall.op = "validate" =>
        \A x, d \in AgentNames :
            (Declares(x, d) /\ Registered(d)
                /\ \E p \in PipelineLabels : InPipeline(x, p) /\ ~InPipeline(d, p))
            => \E k \in DOMAIN issues : issues[k][1] = x

\* ------------------------------------------------------------------ C27
\* C27: when validate reports an unresolved reference, or the declared
\* dependencies contain a cycle, startup fails: the scheduler is never
\* started with such a set of agents.
C27_InvalidConfigNeverStarts ==
    started =>
        /\ \A x, d \in AgentNames : Declares(x, d) => Registered(d)
        /\ \A p \in PipelineLabels : ~Cyclic(p)

\* ------------------------------------------------------------------ C28
\* C28: register raises when the name of the agent is empty or registered
\* and then leaves the registry as it was, the agent registered under the
\* name included; otherwise it adds the agent; every registered name is
\* non-empty and is the name of one agent.
C28_RegisterRejects ==
    /\ [][regcall'.op = "register" =>
            IF regcall'.arg = "" \/ Registered(regcall'.arg)
            THEN regcall'.raised = "ValueError" /\ agents' = agents
            ELSE /\ regcall'.raised = "none"
                 /\ Len(agents') = Len(agents) + 1
                 /\ SubSeq(agents', 1, Len(agents)) = agents
                 /\ agents'[Len(agents')].name = regcall'.arg]_vars
    /\ [](\A m, n \in DOMAIN agents :
            agents[n].name # "" /\ (agents[m].name = agents[n].name => m = n))

\* a second agent with the name of the first one was refused
C28_Witness ==
    /\ regcall.op = "register" /\ regcall.raised = "ValueError"
    /\ Len(agents) = 2 /\ regcall.arg = agents[1].name

\* ------------------------------------------------------------------ C29
\* C29: execute_tool of the composite provider calls the primary (MCP)
\* first whenever it is connected; when that call raises and the secondary
\* (cache) is connected, the call ends as the call of the secondary ends,
\* with its result when it returns, and last_source is "cache"; when the
\* call of the primary returns, the secondary is not called and last_source
\* is "mcp".
C29_PrimaryFirstThenFallback ==
    toolcall.tool # "none" =>
        /\ toolcall.mcp_connected => toolcall.tried # << >> /\ toolcall.tried[1] = "mcp"
        /\ (toolcall.mcp_connected /\ ~toolcall.mcp_ok /\ toolcall.cache_connected) =>
            /\ toolcall.tried = <<"mcp", "cache">>
            /\ last_source = "cache"
            /\ toolcall.raised = ~toolcall.cache_ok
            /\ toolcall.cache_ok => toolcall.value = "cache"
        /\ (toolcall.mcp_connected /\ toolcall.mcp_ok) =>
            /\ ~toolcall.raised /\ toolcall.value = "mcp"
            /\ toolcall.tried = <<"mcp">>
            /\ last_source = "mcp"

\* the call of the primary raised and the result of the secondary was
\* returned
C29_Witness ==
    /\ toolcall.mcp_connected /\ ~toolcall.mcp_ok
    /\ toolcall.tried = <<"mcp", "cache">>
    /\ ~toolcall.raised /\ toolcall.value = "cache"
    /\ last_source = "cache"

\* ------------------------------------------------------------------ C30
\* C30: execute_tool of the composite provider raises only if no
\* sub-provider is connected or the call of every connected sub-provider
\* fails: whenever the call of a connected sub-provider would return,
\* execute_tool returns a result.
C30_RaisesOnlyIfAllFail ==
    toolcall.tool # "none" =>
        /\ ((toolcall.mcp_connected /\ toolcall.mcp_ok)
                \/ (toolcall.cache_connected /\ toolcall.cache_ok))
            => ~toolcall.raised /\ toolcall.value \in {"mcp", "cache"}
        /\ toolcall.raised =>
            /\ toolcall.value = "none"
            /\ toolcall.mcp_connected => ~toolcall.mcp_ok
            /\ toolcall.cache_connected => ~toolcall.cache_ok

\* with the primary not connected, the call returned the result of the
\* secondary without a call of the primary
C30_Witness ==
    /\ toolcall.tool = "get-document"
    /\ ~toolcall.mcp_connected /\ toolcall.cache_connected /\ toolcall.cache_ok
    /\ toolcall.tried = <<"cache">> /\ ~toolcall.raised
    /\ toolcall.value = "cache"

\* ------------------------------------------------------------------ C36
\* C36: the row of a run that is still executing when it gets older than
\* the stale timeout is set to "failed" by a sweep made during the
\* execution: the sweep selects by status and start time alone, whether or
\* not the run holds its pipeline lock, and it does not stop the run.
LongRunning(i, a) == pc[i] = "exec" /\ steps[i][idx[i]] = a /\ runlog[i][a] = "running" /\ stale[i]

C36_SweepFailsLiveRun ==
    /\ [](\A i \in Slots, a \in AGENT_EXECUTORS :
            LongRunning(i, a) => IsStale(runlog, stale, i, a))
    /\ [][SweepStep =>
            \A i \in Slots, a \in AGENT_EXECUTORS :
                LongRunning(i, a) =>
                    /\ runlog'[i][a] = "failed"
                    /\ pc'[i] = "exec" /\ idx'[i] = idx[i] /\ active'[i] = active[i]
                    /\ lock' = lock /\ holders' = holders]_vars

\* the row of an agent call was swept while the call goes on under the
\* lock of its pipeline
C36_Witness ==
    \E i \in Slots :
        /\ pc[i] = "exec" /\ steps[i][idx[i]] \in active[i]
        /\ TimedOut(i, steps[i][idx[i]])
        /\ acquired[i] /\ i \in holders[LockKeyOf(i)] /\ lock[LockKeyOf(i)] # 0

\* ------------------------------------------------------------------ C37
\* C37: release_sync_lock of an invocation never removes a lock that
\* another invocation holds: a key is deleted only by the invocation whose
\* SET created it.
ReleaseStep(i) == pc[i] = "release" /\ pc'[i] = "done"

C37_ReleaseOwnLockOnly ==
    [][\A i \in Slots : ReleaseStep(i) => holders[LockKeyOf(i)] \subseteq {i}]_vars

\* ------------------------------------------------------------------ C39
\* C39: trigger_pipeline with a pipeline name other than "sync" and
\* "briefing" returns the "Unknown pipeline" result and neither sets nor
\* deletes a lock key, whatever the state of the locks.
C39_UnknownPipelineTouchesNoLock ==
    \A i \in Slots :
        (entry[i] = "trigger_pipeline" /\ pipeline[i] = "other") =>
            /\ pc[i] \in {"release", "done"} => result[i] = "skipped_unknown"
            /\ ~acquired[i] /\ ~deleted[i]

\* ------------------------------------------------------------------ C31
\* C31: health_check of the composite returns disconnected only if neither
\* sub-provider is connected: with a connected sub-provider the result is
\* healthy or degraded, degraded when none reports healthy.
SubHealthy ==
    \/ healthcall.mcp_connected /\ healthcall.mcp_status = "healthy"
    \/ healthcall.cache_connected /\ healthcall.cache_status = "healthy"

C31_DisconnectedOnlyIfNoneConnected ==
    (healthcall.result # "none" /\ (healthcall.mcp_connected \/ healthcall.cache_connected)) =>
        /\ healthcall.result \in {"healthy", "degraded"}
        /\ ~SubHealthy => healthcall.result = "degraded"

\* ------------------------------------------------------------------ C32
\* C32: health_check of the composite returns healthy exactly when a
\* connected sub-provider's own health check reports healthy; a failure
\* inside the health check of the primary does not keep a healthy secondary
\* from yielding healthy.
C32_HealthyIffSubHealthy ==
    healthcall.result # "none" =>
        /\ healthcall.result = "healthy" <=> SubHealthy
        /\ (healthcall.mcp_connected /\ healthcall.mcp_status # "healthy"
            /\ healthcall.cache_connected /\ healthcall.cache_status = "healthy")
                => healthcall.result = "healthy"

\* the ping of the connected primary failed and the connected secondary
\* made the result healthy
C32_Witness ==
    /\ healthcall.mcp_connected /\ healthcall.mcp_status = "degraded"
    /\ healthcall.cache_connected /\ healthcall.cache_status = "healthy"
    /\ healthcall.result = "healthy"

C38_RaisingCallKeepsLastSource ==
    [][lastcall' = "execute_tool" =>
        /\ ~toolcall'.raised => last_source' = toolcall'.value
        /\ toolcall'.raised => last_source' = last_source]_vars

SubProviders == {cls \in ProviderClasses : ProviderName(cls) = ""}

C34_NoUnnamedProviderRegistered ==
    /\ \A n \in DOMAIN providers : providers[n] \notin SubProviders
    /\ "" \notin ProviderKeys(providers)
    /\ provcall.op \in {"get", "list_all", "health_check_all"} =>
        \A n \in DOMAIN provcall.result : provcall.result[n] \notin SubProviders
    /\ (provcall.op = "get" /\ provcall.arg = "") => provcall.raised = "KeyError"
    /\ (provcall.op = "register" /\ provcall.arg \in SubProviders) =>
        provcall.raised = "ValueError"

\* with the composite registered, get of the empty name raised KeyError
C34_Witness ==
    /\ "GranolaProvider" \in {providers[n] : n \in DOMAIN providers}
    /\ provcall.op = "get" /\ provcall.arg = "" /\ provcall.raised = "KeyError"

\* ------------------------------------------------------------------ C35
\* C35: when should_run of an agent returns false the agent is skipped:
\* its process is not called, the state goes on unchanged to the next
\* agent, and no entry is added to the errors list.
Skipped == nodecall.agent # "" /\ ~nodecall.should_run

====
